---------------------------- MODULE Spec2Model ----------------------------
(***************************************************************************)
(* Obstacle Space Echo: the per-sample DSP engine (TapeDelay, SpringReverb,*)
(* ShimmerChorus, TapeNoise) and SpaceEchoAudioProcessor::processBlock.    *)
(*                                                                         *)
(* Numbers.  The code computes in float; the model computes in fixed point.*)
(*   sample values, 0..1 amounts  : integers, One      = 1.0               *)
(*   fractional delays            : integers, Frac     = one sample        *)
(*   LFO phases, modulation depth : integers, Micro    = 1.0               *)
(*   filter coefficients          : integers, CoefOne  = 1.0               *)
(*   dropout gain                 : integers, GainOne  = 1.0               *)
(* Products are divided back with SDiv (truncation towards zero).          *)
(*                                                                         *)
(* Time.  Buffers are sized from SampleRate samples per second and from the*)
(* headroom Margin (4096 in the code); the shimmer grain is 2^GrainBits    *)
(* samples (2^12 in the code) and the oscilloscope ring SCOPE_SIZE samples *)
(* (512 in the code).  These are kept small so that a buffer is a few      *)
(* dozen samples long.  Coefficients the code derives from the sample rate *)
(* with exp/sin/cos (filter cut-offs above the model's Nyquist rate) are   *)
(* evaluated at RefRate = 44100 Hz.                                        *)
(***************************************************************************)
EXTENDS Integers, Sequences, FiniteSets, TLC

\* ------------------------------------------------------------------ bounds
SampleRate == 100    \* samples per second of the model's time axis
Margin     == 8      \* interpolation headroom added to the tape buffer
MaxCalls   == 136    \* TapeDelay.process calls in one run of SpecTape
FreezeBy   == 2      \* SpecTape: freeze is switched on within FreezeBy calls
ThawBy     == 2      \* SpecTape: freeze is switched off within ThawBy frozen calls
TailCalls  == 2      \* SpecTape: calls made after freeze is switched off
LoopExtra  == 3      \* SpecTape: frozen calls made beyond one loop of the buffer
PeakTol    == 1      \* interpolation tolerance of an impulse peak, in samples
GrainBits  == 3      \* log2 of the shimmer grain length (12 in the code)
FloatBits  == 5      \* bits of a float's significand (24 in the code)
SCOPE_SIZE == 4      \* length of the oscilloscope ring buffer (512 in the code)
IntBits    == 8      \* width of an int (32 in the code)
BlockLen   == 8      \* SpecProc: samples per processBlock call
MaxSamples == 24     \* SpecProc: samples processed in one run
MaxHits    == 1      \* SpecProc: non-silent input samples in one run
MaxEdits   == 2      \* SpecProc: single parameter changes in one run
MaxLoads   == 1      \* SpecProc: setStateInformation calls in one run
MaxPrepares == 2     \* SpecProc: prepareToPlay calls in one run
LoopCap    == 4      \* SpecLoop: a run ends when a tape holds more than LoopCap times full scale
MaxTimers  == 2      \* SpecThreads: timer callbacks of the editor in one run
MaxChanges == 1      \* SpecControl: changes made by the control thread in one run
DropLenBase   == 3   \* shortest dropout in samples (1323 in the code, 30 ms at 44.1 kHz)
DropLenBits   == 2   \* width of the random part of a dropout's length (11 in the code)
DropTimerBits == 6   \* width of the random part of the time to the next dropout (20 in the code)
MaxDrops   == 2      \* SpecDrop: dropouts triggered in one run
ResetNear  == 2      \* SpecDrop: an idle tape is reset within ResetNear calls of a trigger
MaxDraws   == 12     \* SpecDraw: dropouts drawn before the one under test
MaxDrawCalls == 3    \* SpecDraw: process calls made from the trigger on
MaxShimCalls == 76   \* SpecShim: ShimmerChorus.process calls in one run
MaxEqCalls == 3      \* SpecEq: updateEQ calls of processBlock in one run

\* ------------------------------------------------------------- fixed point
One      == 1024
Frac     == 16
Micro    == 1000000
CoefOne  == 16384
GainOne  == 65536
RefRate  == 44100

\* F (v) with v evaluated once: the value of a C++ local variable
ByValue(v, F(_)) == CHOOSE r \in {F(w) : w \in {v}} : TRUE

\* std::abs, juce::jmin, juce::jmax, juce::jlimit (lo, hi, v)
Abs(x) == ByValue(x, LAMBDA v : IF v < 0 THEN -v ELSE v)
Min(a, b) == ByValue(<<a, b>>, LAMBDA p : IF p[1] < p[2] THEN p[1] ELSE p[2])
Max(a, b) == ByValue(<<a, b>>, LAMBDA p : IF p[1] < p[2] THEN p[2] ELSE p[1])
jlimit(lo, hi, v) ==
    ByValue(v, LAMBDA w : IF w < lo THEN lo ELSE IF hi < w THEN hi ELSE w)

\* C++ division of floats, truncated towards zero when stored in fixed point
SDiv(a, b) ==
    ByValue(a, LAMBDA v : IF v >= 0 THEN v \div b ELSE -((-v) \div b))

\* x * c / d without an intermediate product above 2^31 (|x| may be large)
MulQ(x, c, d) ==
    ByValue(<<x, c>>, LAMBDA p :
      IF p[1] >= 0
        THEN (p[1] \div d) * p[2] + SDiv((p[1] % d) * p[2], d)
        ELSE -(((-p[1]) \div d) * p[2] + SDiv(((-p[1]) % d) * p[2], d)))

\* ------------------------------------------------------ 32-bit unsigned ints
\* A uint32_t is the tuple of its 32 bits, element 1 the least significant.
Bit32 == 1..32

RECURSIVE BitsOf(_, _)
BitsOf(v, n) == IF n = 0 THEN << >> ELSE <<v % 2>> \o BitsOf(v \div 2, n - 1)

\* the uint32_t with high half hi and low half lo (each 0..65535)
U32(hi, lo) == BitsOf(lo, 16) \o BitsOf(hi, 16)

Xor32(a, b) ==
    ByValue(<<a, b>>, LAMBDA p : [i \in Bit32 |-> (p[1][i] + p[2][i]) % 2])
Shl32(a, k) ==
    ByValue(a, LAMBDA v : [i \in Bit32 |-> IF i > k THEN v[i - k] ELSE 0])
Shr32(a, k) ==
    ByValue(a, LAMBDA v : [i \in Bit32 |-> IF i + k <= 32 THEN v[i + k] ELSE 0])

\* bits lo..lo+n-1 of a as a number:  (a >> lo) & (2^n - 1),  n <= 30
RECURSIVE BitField(_, _, _)
BitField(a, lo, n) ==
    IF n = 0 THEN 0 ELSE a[lo + 1] + 2 * BitField(a, lo + 1, n - 1)

\* static_cast<int32_t>(a) >> 10 : the signed value in units of 2^-21
Signed22(a) == ByValue(a, LAMBDA v : BitField(v, 10, 21) - v[32] * 2097152)

\* x ^= x << 13; x ^= x >> 17; x ^= x << 5;
Xorshift32(x) ==
    ByValue(Xor32(x, Shl32(x, 13)), LAMBDA a :
    ByValue(Xor32(a, Shr32(a, 17)), LAMBDA b :
      Xor32(b, Shl32(b, 5))))

\* ------------------------------------------------------------ sin, cos, exp
\* std::sin (ph * twoPi) for a phase ph in [0, Micro), result in 1/1000:
\* Bhaskara's rational approximation on each half period.
SinHalf(p) ==
    ByValue((p \div 500) * (1000 - p \div 500), LAMBDA q :
      (4000 * q) \div (1250000 - q))

SinPhase(ph) ==
    ByValue(ph % Micro, LAMBDA p :
      IF p < 500000 THEN SinHalf(p) ELSE -SinHalf(p - 500000))

CosPhase(ph) == SinPhase(ph + 250000)

\* std::exp (-y), y >= 0 in CoefOne units, result in CoefOne units:
\* exp(-n) by repeated multiplication by 1/e, exp(-f) by its Taylor series.
RECURSIVE ExpNegInt(_)
ExpNegInt(n) ==
    IF n = 0 THEN CoefOne
    ELSE IF n > 12 THEN 0
    ELSE (ExpNegInt(n - 1) * 6027) \div CoefOne

RECURSIVE ExpTaylor(_, _, _)
ExpTaylor(f, k, term) ==
    ByValue(term, LAMBDA v :
      IF k > 8 \/ v = 0 THEN 0
      ELSE v + ExpTaylor(f, k + 1, -SDiv(v * f, CoefOne * k)))

ExpNeg(y) ==
    ByValue(y, LAMBDA v :
      (ExpNegInt(v \div CoefOne) * ExpTaylor(v % CoefOne, 1, CoefOne)) \div CoefOne)

TwoPiQ == 102944     \* twoPi in CoefOne units

\* std::exp (-twoPi * hz / sr) at the reference rate
PoleCoef(hz) == ExpNeg((hz * TwoPiQ) \div RefRate)

\* ---------------------------------------------------------------- TapeDelay
NUM_HEADS == 3
Heads == 1..NUM_HEADS

\* HEAD_RATIOS = { 1.0f, 1.475f, 2.625f }, in 1/1000
HEAD_RATIOS == <<1000, 1475, 2625>>

\* HEAD_BASE_FC = { 7000.f, 5200.f, 3800.f } (Hz)
HEAD_BASE_FC == <<7000, 5200, 3800>>

Zero3 == <<0, 0, 0>>

\* LFO increment  hz / sr  for a rate given in mHz, in Micro units
LfoInc(mHz) == (mHz * 1000) \div SampleRate

\* bufferSize = static_cast<int> (maxDelayMs / 1000.0 * sampleRate) + 4096
TapeBufferSize(maxDelayMs) == (maxDelayMs * SampleRate) \div 1000 + Margin

\* TapeDelay::prepare (newSampleRate, maxDelayMs, wowSeedPhase); the members
\* prepare does not assign (frozen) keep the value they had in t.
TapePrepare(t, maxDelayMs, wowSeedPhase) ==
    [ buffer        |-> [i \in 0..(TapeBufferSize(maxDelayMs) - 1) |-> 0],
      bufferSize    |-> TapeBufferSize(maxDelayMs),
      writePos      |-> 0,
      frozen        |-> t.frozen,
      wowPhase      |-> wowSeedPhase,
      wowInc        |-> LfoInc(400),
      flutterPhase  |-> 0,
      flutterInc    |-> LfoInc(8000),
      flutter2Phase |-> 370000,
      flutter2Inc   |-> LfoInc(13700),
      driftPhase    |-> 0,
      driftInc      |-> LfoInc(50),
      randState     |-> U32(37590, 36002),
      randomFlutter |-> 0,
      dropRandState |-> Xor32(U32(18838, 723), U32(0, SampleRate)),
      dropoutTimer  |-> 2 * SampleRate,
      dropoutLen    |-> 0,
      dropoutGain   |-> GainOne,
      headLpState   |-> Zero3,
      bumpHiState   |-> Zero3,
      bumpLoState   |-> Zero3,
      hpState       |-> Zero3,
      hpCoeff       |-> PoleCoef(30),
      refDelaySamples |-> (150 * SampleRate * Frac) \div 1000 ]

\* A TapeDelay as constructed (member initialisers), before any prepare.
TapeConstructed ==
    [ frozen |-> FALSE ]

\* (a reset that moves the write cursor on instead of rewinding it)
TapeResetMoves(t) ==
    [t EXCEPT !.buffer        = [i \in DOMAIN t.buffer |-> 0],
              !.writePos      = (t.writePos + 1) % t.bufferSize,
              !.randomFlutter = 0,
              !.dropoutGain   = GainOne,
              !.dropoutLen    = 0,
              !.headLpState   = Zero3,
              !.bumpHiState   = Zero3,
              !.bumpLoState   = Zero3,
              !.hpState       = Zero3]

\* (a reset that leaves the playback gain where the dropout had it)
TapeResetKeepsGain(t) ==
    [t EXCEPT !.buffer        = [i \in DOMAIN t.buffer |-> 0],
              !.writePos      = 0,
              !.randomFlutter = 0,
              !.dropoutLen    = 0,
              !.headLpState   = Zero3,
              !.bumpHiState   = Zero3,
              !.bumpLoState   = Zero3,
              !.hpState       = Zero3]

\* TapeDelay::reset
TapeReset(t) ==
    [t EXCEPT !.buffer        = [i \in DOMAIN t.buffer |-> 0],
              !.writePos      = 0,
              !.randomFlutter = 0,
              !.dropoutGain   = GainOne,
              !.dropoutLen    = 0,
              !.headLpState   = Zero3,
              !.bumpHiState   = Zero3,
              !.bumpLoState   = Zero3,
              !.hpState       = Zero3]

\* TapeDelay::setFrozen
TapeSetFrozen(t, shouldFreeze) == [t EXCEPT !.frozen = shouldFreeze]

\* TapeDelay::advancePhase
advancePhase(ph, inc) == IF ph + inc >= Micro THEN ph + inc - Micro ELSE ph + inc

\* TapeDelay::saturate (x, amount)
saturate(x, amount) ==
    IF amount * 1000 < One THEN x
    ELSE
      ByValue(One + (amount * 45) \div 10, LAMBDA drive :
      ByValue(SDiv(x * drive, One), LAMBDA xd :
        SDiv(One * (IF xd >= 0
                      THEN SDiv(xd * One, One + (112 * xd) \div 100)
                      ELSE SDiv(xd * One, One + (88 * (-xd)) \div 100)),
             drive)))

\* the while loop of readCubic:  while (rPos < 0.f) rPos += bufferSize
RECURSIVE WrapUp(_, _)
WrapUp(rPos, size) ==
    ByValue(rPos, LAMBDA v : IF v < 0 THEN WrapUp(v + size, size) ELSE v)

\* (taps taken from the position rounded up instead of down)
CubicTapsAhead(writePos, bufferSize, delaySamples) ==
    ByValue(WrapUp(writePos * Frac - delaySamples, bufferSize * Frac), LAMBDA rPos :
    ByValue(((rPos + Frac - 1) \div Frac) % bufferSize, LAMBDA i1 :
      [ im1 |-> (i1 - 1 + bufferSize) % bufferSize,
        i1  |-> i1,
        i2  |-> (i1 + 1) % bufferSize,
        i3  |-> (i1 + 2) % bufferSize,
        t   |-> rPos % Frac ]))

\* TapeDelay::readCubic, the positions: the four taps and the fraction t
CubicTaps(writePos, bufferSize, delaySamples) ==
    ByValue(WrapUp(writePos * Frac - delaySamples, bufferSize * Frac), LAMBDA rPos :
    ByValue((rPos \div Frac) % bufferSize, LAMBDA i1 :
      [ im1 |-> (i1 - 1 + bufferSize) % bufferSize,
        i1  |-> i1,
        i2  |-> (i1 + 1) % bufferSize,
        i3  |-> (i1 + 2) % bufferSize,
        t   |-> rPos % Frac ]))

\* the Catmull-Rom value of readCubic from the four samples and the fraction;
\* a0, a1, a2 are kept doubled and the sum is halved at the end
CatmullRom(y0, y1, y2, y3, t) ==
    y1 + SDiv((-y0 + 3 * y1 - 3 * y2 + y3) * t * t * t
              + (2 * y0 - 5 * y1 + 4 * y2 - y3) * t * t * Frac
              + (-y0 + y2) * t * Frac * Frac,
              2 * Frac * Frac * Frac)

\* TapeDelay::readCubic
readCubic(buffer, writePos, bufferSize, delaySamples) ==
    ByValue(CubicTaps(writePos, bufferSize, delaySamples), LAMBDA p :
      CatmullRom(buffer[p.im1], buffer[p.i1], buffer[p.i2], buffer[p.i3], p.t))

\* the numbers of the dropout as the code has them at sample rate sr:
\* static_cast<uint32_t> (sr * 15.f), 1323u, the widths of 0x7FFu and 0xFFFFFu
DropCode(sr) == [ sr |-> sr, lenBase |-> 1323, lenBits |-> 11, timerBits |-> 20 ]

\* the same numbers on the model's time axis
DropModel ==
    [ sr |-> SampleRate, lenBase |-> DropLenBase, lenBits |-> DropLenBits,
      timerBits |-> DropTimerBits ]

\* the dropout that starts when the timer has run out, from the two draws
DropoutStart(k, r1, r2) ==
    [ dropRandState |-> r2,
      dropoutGain   |-> GainOne \div 4
                        + (BitField(r1, 0, 8) * (GainOne \div 4)) \div 255,
      dropoutLen    |-> k.lenBase + BitField(r1, 8, k.lenBits),
      dropoutTimer  |-> k.sr * 15 + BitField(r2, 0, k.timerBits) ]

\* (a dropout whose remaining length is not counted down)
TapeDropoutStuck(k, t) ==
    IF t.dropoutLen > 0
      THEN [ dropRandState |-> t.dropRandState,
             dropoutTimer  |-> t.dropoutTimer,
             dropoutLen    |-> t.dropoutLen,
             dropoutGain   |-> t.dropoutGain
                                 + ((GainOne - t.dropoutGain) * 4) \div 1000 ]
    ELSE IF t.dropoutTimer = 0
      THEN ByValue(Xorshift32(t.dropRandState), LAMBDA r1 :
           ByValue(Xorshift32(r1), LAMBDA r2 : DropoutStart(k, r1, r2)))
    ELSE [ dropRandState |-> t.dropRandState,
           dropoutTimer  |-> t.dropoutTimer - 1,
           dropoutLen    |-> t.dropoutLen,
           dropoutGain   |-> t.dropoutGain ]

\* step 3 of process: the dropout state machine, with the numbers k
TapeDropout(k, t) ==
    IF t.dropoutLen > 0
      THEN [ dropRandState |-> t.dropRandState,
             dropoutTimer  |-> t.dropoutTimer,
             dropoutLen    |-> t.dropoutLen - 1,
             dropoutGain   |-> IF t.dropoutLen - 1 = 0 THEN GainOne
                               ELSE t.dropoutGain
                                    + ((GainOne - t.dropoutGain) * 4) \div 1000 ]
    ELSE IF t.dropoutTimer = 0
      THEN ByValue(Xorshift32(t.dropRandState), LAMBDA r1 :
           ByValue(Xorshift32(r1), LAMBDA r2 : DropoutStart(k, r1, r2)))
    ELSE [ dropRandState |-> t.dropRandState,
           dropoutTimer  |-> t.dropoutTimer - 1,
           dropoutLen    |-> t.dropoutLen,
           dropoutGain   |-> t.dropoutGain ]

\* (a record step that ignores the freeze switch)
TapeRecordAlways(t, toWrite) == [t.buffer EXCEPT ![t.writePos] = toWrite]

\* the write of step 4:  if (! frozen) buffer[writePos] = toWrite
TapeRecord(t, toWrite) ==
    IF ~t.frozen THEN [t.buffer EXCEPT ![t.writePos] = toWrite] ELSE t.buffer

\* (a cursor that does not move)
TapeAdvanceStuck(writePos, bufferSize) == writePos

\* the end of process:  if (++writePos >= bufferSize) writePos = 0
TapeAdvance(writePos, bufferSize) ==
    IF writePos + 1 >= bufferSize THEN 0 ELSE writePos + 1

\* step 1 of process: the low-passed random flutter from the new random state
TapeFlutter(t, rand) ==
    t.randomFlutter
      + SDiv(713 * (MulQ(Signed22(rand), 15625, 32768) - t.randomFlutter), Micro)

\* steps 1 and 2 of process: mod + drift, in Micro
TapeTotalMod(t, rf, wowFlutterAmt) ==
    SDiv((SDiv(SinPhase(t.wowPhase) * 4200 + SinPhase(t.flutterPhase) * 900
                 + SinPhase(t.flutter2Phase) * 200, 1000)
          + SDiv(rf * 25, 1000)) * wowFlutterAmt, One)
      + SDiv(SinPhase(t.driftPhase) * 1500, 1000)

\* (a head delay that is not clamped)
HeadDelayFree(t, baseDelaySamples, totalMod, h) ==
    ByValue(SDiv(baseDelaySamples * HEAD_RATIOS[h], 1000), LAMBDA d0 :
      d0 + MulQ(d0, totalMod, Micro))

\* the clamped delay of head h (Frac units) for a total modulation in Micro
HeadDelay(t, baseDelaySamples, totalMod, h) ==
    ByValue(SDiv(baseDelaySamples * HEAD_RATIOS[h], 1000), LAMBDA d0 :
      jlimit(Frac, (t.bufferSize - 4) * Frac, d0 + MulQ(d0, totalMod, Micro)))

\* the clamped print-through delay of a head delay
PtDelay(t, delay) == jlimit(Frac, (t.bufferSize - 4) * Frac, SDiv(delay * 92, 100))

\* the low-pass coefficient of head h:  exp (-twoPi * fc / sr)
HeadLpCoef(t, baseDelaySamples, h) ==
    PoleCoef(jlimit(1800, 9000, (HEAD_BASE_FC[h] * t.refDelaySamples)
                                   \div Max(Frac, baseDelaySamples)))

\* one pole:  state = c * state + (1 - c) * x
OnePole(c, state, x) == SDiv(c * state + (CoefOne - c) * x, CoefOne)

\* one pole written as  state += inc * (x - state)
OnePoleInc(inc, state, x) == state + SDiv(inc * (x - state), CoefOne)


\* step 5 of process for head h, given the buffer after step 4, the dropout
\* gain and the total modulation: the head's new filter states, its output
\* before crosstalk, and what it read (the interpolated value, the clamped
\* delay, the positions of the playback read and of the print-through read)
TapeHead(t, buf, dropoutGain, baseDelaySamples, totalMod, h) ==
    ByValue(HeadDelay(t, baseDelaySamples, totalMod, h), LAMBDA d :
    ByValue(readCubic(buf, t.writePos, t.bufferSize, d), LAMBDA raw0 :
    ByValue(OnePole(HeadLpCoef(t, baseDelaySamples, h), t.headLpState[h],
                    MulQ(raw0, dropoutGain, GainOne)
                      + SDiv(readCubic(buf, t.writePos, t.bufferSize,
                                       PtDelay(t, d)) * 18, 1000)), LAMBDA lp :
    ByValue(OnePoleInc(CoefOne - PoleCoef(270), t.bumpHiState[h],
                       lp - t.hpState[h]), LAMBDA bHi :
    ByValue(OnePoleInc(CoefOne - PoleCoef(85), t.bumpLoState[h],
                       lp - t.hpState[h]), LAMBDA bLo :
      [ lp     |-> lp,
        hp     |-> OnePole(t.hpCoeff, t.hpState[h], lp),
        bHi    |-> bHi,
        bLo    |-> bLo,
        out    |-> (lp - t.hpState[h]) + SDiv((bHi - bLo) * 28, 100),
        raw    |-> raw0,
        delay  |-> d,
        taps   |-> CubicTaps(t.writePos, t.bufferSize, d),
        ptTaps |-> CubicTaps(t.writePos, t.bufferSize, PtDelay(t, d)) ])))))

\* step 6 of process: head h with 1.5 % of its neighbours
Crosstalk(orig, h) ==
    orig[h] + (IF h > 1 THEN SDiv(orig[h - 1] * 15, 1000) ELSE 0)
            + (IF h < NUM_HEADS THEN SDiv(orig[h + 1] * 15, 1000) ELSE 0)

\* the end of process: the members after the call and the returned outputs
TapeResult(t, rand, rf, drop, buf, hd) ==
    [ t |-> [t EXCEPT
               !.wowPhase      = advancePhase(t.wowPhase, t.wowInc),
               !.flutterPhase  = advancePhase(t.flutterPhase, t.flutterInc),
               !.flutter2Phase = advancePhase(t.flutter2Phase, t.flutter2Inc),
               !.driftPhase    = advancePhase(t.driftPhase, t.driftInc),
               !.randState     = rand,
               !.randomFlutter = rf,
               !.dropRandState = drop.dropRandState,
               !.dropoutTimer  = drop.dropoutTimer,
               !.dropoutLen    = drop.dropoutLen,
               !.dropoutGain   = drop.dropoutGain,
               !.buffer        = buf,
               !.headLpState   = <<hd[1].lp, hd[2].lp, hd[3].lp>>,
               !.hpState       = <<hd[1].hp, hd[2].hp, hd[3].hp>>,
               !.bumpHiState   = <<hd[1].bHi, hd[2].bHi, hd[3].bHi>>,
               !.bumpLoState   = <<hd[1].bLo, hd[2].bLo, hd[3].bLo>>,
               !.writePos      = TapeAdvance(t.writePos, t.bufferSize)],
      heads  |-> ByValue(<<hd[1].out, hd[2].out, hd[3].out>>, LAMBDA orig :
                   <<Crosstalk(orig, 1), Crosstalk(orig, 2), Crosstalk(orig, 3)>>),
      raw    |-> <<hd[1].raw, hd[2].raw, hd[3].raw>>,
      delays |-> <<hd[1].delay, hd[2].delay, hd[3].delay>>,
      taps   |-> <<hd[1].taps, hd[2].taps, hd[3].taps>>,
      ptTaps |-> <<hd[1].ptTaps, hd[2].ptTaps, hd[3].ptTaps>> ]

\* TapeDelay::process (input, baseDelaySamples, feedbackSignal, wowFlutterAmt,
\* saturationAmt): the tape after the call, the three head outputs, and per
\* head what the call read.
TapeProcess(t, input, baseDelaySamples, feedbackSignal, wowFlutterAmt, saturationAmt) ==
    ByValue(Xorshift32(t.randState), LAMBDA rand :
    ByValue(TapeFlutter(t, rand), LAMBDA rf :
    ByValue(TapeTotalMod(t, rf, wowFlutterAmt), LAMBDA totalMod :
    ByValue(TapeDropout(DropModel, t), LAMBDA drop :
    ByValue(TapeRecord(t, saturate(input + feedbackSignal, saturationAmt)), LAMBDA buf :
    ByValue(<< TapeHead(t, buf, drop.dropoutGain, baseDelaySamples, totalMod, 1),
               TapeHead(t, buf, drop.dropoutGain, baseDelaySamples, totalMod, 2),
               TapeHead(t, buf, drop.dropoutGain, baseDelaySamples, totalMod, 3) >>,
            LAMBDA hd : TapeResult(t, rand, rf, drop, buf, hd)))))))


\* ------------------------------------------------------------ SmoothedValue
\* juce::SmoothedValue<float, ValueSmoothingTypes::Linear>

\* a default-constructed smoother
SmConstructed ==
    [ current |-> 0, target |-> 0, countdown |-> 0, step |-> 0, stepsToTarget |-> 0 ]

\* initSmoother:  sm.reset (sampleRate, rampSec); sm.setCurrentAndTargetValue (v)
\* with stepsToTarget = floor (rampSec * sampleRate), the ramp given in ms
SmInit(rampMs, v) ==
    [ current |-> v, target |-> v, countdown |-> 0, step |-> 0,
      stepsToTarget |-> (rampMs * SampleRate) \div 1000 ]

\* setTargetValue (v)
SmSetTarget(s, v) ==
    IF v = s.target THEN s
    ELSE IF s.stepsToTarget <= 0
      THEN [s EXCEPT !.current = v, !.target = v, !.countdown = 0]
    ELSE [s EXCEPT !.target = v,
                   !.countdown = s.stepsToTarget,
                   !.step = SDiv(v - s.current, s.stepsToTarget)]

\* (a getNextValue that leaves the smoother where it is)
SmNextStuck(s) == s

\* getNextValue: the smoother after the call
SmNext(s) ==
    IF s.countdown <= 0 THEN s
    ELSE IF s.countdown - 1 > 0
      THEN [s EXCEPT !.countdown = @ - 1, !.current = @ + s.step]
    ELSE [s EXCEPT !.countdown = 0, !.current = s.target]

\* getNextValue: the value returned
SmRead(s) == IF s.countdown <= 0 THEN s.target ELSE SmNext(s).current

\* ------------------------------------------------- juce::dsp::IIR::Filter
\* A filter is its five normalised coefficients b0 b1 b2 a1 a2 (CoefOne
\* units) and its two state values.

\* a default-constructed filter passes its input through
BiquadConstructed == [ c |-> <<CoefOne, 0, 0, 0, 0>>, s1 |-> 0, s2 |-> 0 ]

\* Filter::reset (also called by Filter::prepare)
BiquadReset(f) == [f EXCEPT !.s1 = 0, !.s2 = 0]

\* Filter::processSample, order 2 (transposed direct form II):
\*   out = c0 * x + s1;  s1 = c1 * x - c3 * out + s2;  s2 = c2 * x - c4 * out
BiquadProcess(f, x) ==
    ByValue(x, LAMBDA xv :
    ByValue(MulQ(xv, f.c[1], CoefOne) + f.s1, LAMBDA out :
      [ f   |-> [f EXCEPT !.s1 = MulQ(xv, f.c[2], CoefOne)
                                   - MulQ(out, f.c[4], CoefOne) + f.s2,
                          !.s2 = MulQ(xv, f.c[3], CoefOne)
                                   - MulQ(out, f.c[5], CoefOne)],
        out |-> out ]))

\* Coefficients<float>::makeLowShelf (sr, 200.0, 0.7, decibelsToGain (db)) at
\* the reference rate, normalised by a0.  With A = sqrt (gain), w = 2 pi 200 / sr,
\* beta = sin (w) sqrt (A) / 0.7:
\*   b0 = A ((A+1) - (A-1) cos w + beta)    a0 = (A+1) + (A-1) cos w + beta
\*   b1 = 2 A ((A-1) - (A+1) cos w)         a1 = -2 ((A-1) + (A+1) cos w)
\*   b2 = A ((A+1) - (A-1) cos w - beta)    a2 = (A+1) + (A-1) cos w - beta
\* At 0 dB, A = 1 and b = a.
LowShelf(db) ==
    CASE db = -12 -> <<16151, -31836, 15692, -31827, 15469>>
      [] db = 0   -> <<16384, -32101, 15730, -32101, 15730>>
      [] db = 12  -> <<16621, -32286, 15692, -32296, 15919>>

\* Coefficients<float>::makeHighShelf (sr, 3000.0, 0.7, decibelsToGain (db))
\*   b0 = A ((A+1) + (A-1) cos w + beta)    a0 = (A+1) - (A-1) cos w + beta
\*   b1 = -2 A ((A-1) + (A+1) cos w)        a1 = 2 ((A-1) - (A+1) cos w)
\*   b2 = A ((A+1) + (A-1) cos w - beta)    a2 = (A+1) - (A-1) cos w - beta
HighShelf(db) ==
    CASE db = -12 -> <<5072, -5999, 2172, -25738, 10598>>
      [] db = 0   -> <<16384, -23008, 8898, -23008, 8898>>
      [] db = 12  -> <<52928, -83145, 34237, -19380, 7016>>

\* makeLowShelf (sr, 200.0, 0.7, decibelsToGain (db)) and makeHighShelf
\* (sr, 3000.0, 0.7, decibelsToGain (db)) for the sample rate sr: at 48000 Hz
\* by the same formulas, at the reference rate as above
makeLowShelf(sr, db) ==
    IF sr # 48000 THEN LowShelf(db)
    ELSE CASE db = -12 -> <<16170, -31911, 15747, -31903, 15541>>
           [] db = 0   -> <<16384, -32156, 15783, -32156, 15783>>
           [] db = 12  -> <<16601, -32326, 15747, -32334, 15956>>

makeHighShelf(sr, db) ==
    IF sr # 48000 THEN HighShelf(db)
    ELSE CASE db = -12 -> <<4990, -6209, 2284, -26305, 10985>>
           [] db = 0   -> <<16384, -23775, 9350, -23775, 9350>>
           [] db = 12  -> <<53799, -86376, 36072, -20388, 7499>>

\* (an EQ stage that passes the echo through unfiltered)
EqBypass(bass, treble, x) == [ bass |-> bass, treble |-> treble, out |-> x ]

\* echo = bass.processSample (echo); echo = treble.processSample (echo)
EqProcess(bass, treble, x) ==
    ByValue(BiquadProcess(bass, x), LAMBDA b1 :
    ByValue(BiquadProcess(treble, b1.out), LAMBDA t1 :
      [ bass |-> b1.f, treble |-> t1.f, out |-> t1.out ]))

\* ---------------------------------------------------------------- softClip
\* std::tanh (y) for y >= 0 in CoefOne units, result in One units:
\* (1 - exp (-2y)) / (1 + exp (-2y))
TanhQ(y) ==
    ByValue(ExpNeg(2 * y), LAMBDA e : ((CoefOne - e) * One) \div (CoefOne + e))

\* SpaceEchoAudioProcessor::softClip:  std::tanh (x * 0.9f) / 0.9f, the
\* division rounded to the nearest representable value
softClip(x) ==
    ByValue(x, LAMBDA v :
    ByValue(TanhQ((Abs(v) * 144) \div 10), LAMBDA t :
      (IF v < 0 THEN -1 ELSE 1) * ((t * 20 + 9) \div 18)))

\* --------------------------------------------------------------- TapeNoise
\* members' initialisers: state = 0xDEAD1337, hpCoeff = 0.999, lpCoeff = 0.5
NoiseConstructed ==
    [ state   |-> U32(57005, 4919),
      hpCoeff |-> (999 * CoefOne) \div 1000,
      lpCoeff |-> CoefOne \div 2,
      hpState |-> 0,
      lpState |-> 0 ]

\* TapeNoise::reset
NoiseReset(n) == [n EXCEPT !.hpState = 0, !.lpState = 0]

\* TapeNoise::prepare
NoisePrepare(n) ==
    NoiseReset([n EXCEPT !.hpCoeff = PoleCoef(200), !.lpCoeff = PoleCoef(8000)])

\* (a noise source without the gate on its amount and without the scaling by
\* it)
NoiseLoud(n, amount) ==
    ByValue(Xorshift32(n.state), LAMBDA st :
    ByValue(OnePole(n.lpCoeff, n.lpState, SDiv(Signed22(st), 2048)), LAMBDA lp :
      [ n   |-> [n EXCEPT !.state = st,
                          !.lpState = lp,
                          !.hpState = OnePole(n.hpCoeff, n.hpState, lp)],
        out |-> lp - n.hpState ]))

\* (a noise source that draws from its generator before it tests the amount)
NoiseDrawsFirst(n, amount) ==
    ByValue(Xorshift32(n.state), LAMBDA st :
      IF amount * 1000 < One THEN [ n |-> [n EXCEPT !.state = st], out |-> 0 ]
      ELSE
        ByValue(OnePole(n.lpCoeff, n.lpState, SDiv(Signed22(st), 2048)), LAMBDA lp :
          [ n   |-> [n EXCEPT !.state = st,
                              !.lpState = lp,
                              !.hpState = OnePole(n.hpCoeff, n.hpState, lp)],
            out |-> SDiv(SDiv((lp - n.hpState) * amount, One) * 4, 100) ]))

\* TapeNoise::process (amount): the generator after the call and the value
NoiseProcess(n, amount) ==
    IF amount * 1000 < One THEN [ n |-> n, out |-> 0 ]
    ELSE
      ByValue(Xorshift32(n.state), LAMBDA st :
      ByValue(OnePole(n.lpCoeff, n.lpState, SDiv(Signed22(st), 2048)), LAMBDA lp :
        [ n   |-> [n EXCEPT !.state = st,
                            !.lpState = lp,
                            !.hpState = OnePole(n.hpCoeff, n.hpState, lp)],
          out |-> SDiv(SDiv((lp - n.hpState) * amount, One) * 4, 100) ]))

\* ------------------------------------------------------------ SpringReverb
NUM_COMBS   == 8
NUM_ALLPASS == 4

\* combMs, apMs in 1/100 ms; preMs = 8.0f
CombMs == <<2531, 2694, 2896, 3075, 3225, 3384, 3528, 3680>>
ApMs   == <<510, 773, 1000, 1261>>
PreMs  == 800

\* msToSamples:  static_cast<int> (ms * 0.001 * sampleRate) + 1
msToSamples(sr, ms100) == (ms100 * sr) \div 100000 + 1

\* a vector of n zeros
Zeros(n) == [i \in 1..n |-> 0]

\* SpringReverb::setSize:  roomCoeff = 0.70f + s * 0.27f  (s in 1/100)
SpringSetSize(sp, s) ==
    [sp EXCEPT !.roomCoeff = (CoefOne * (7000 + s * 27)) \div 10000]

\* SpringReverb::setDamping:  damp = d * 0.45f  (d in 1/100)
SpringSetDamping(sp, d) ==
    [sp EXCEPT !.damp = (CoefOne * (d * 45)) \div 10000]

\* members' initialisers: no buffers yet, roomCoeff = 0.84f, damp = 0.20f
SpringConstructed ==
    [ preDelayBuf |-> << >>, preDelayPos |-> 0,
      combBufs    |-> << << >>, << >>, << >>, << >>, << >>, << >>, << >>, << >> >>,
      combPos     |-> <<0, 0, 0, 0, 0, 0, 0, 0>>,
      combState   |-> <<0, 0, 0, 0, 0, 0, 0, 0>>,
      apBufs      |-> << << >>, << >>, << >>, << >> >>,
      apPos       |-> <<0, 0, 0, 0>>,
      roomCoeff   |-> (84 * CoefOne) \div 100,
      damp        |-> (20 * CoefOne) \div 100,
      boingA1 |-> 0, boingA2 |-> 0, boingB0 |-> 0, boingY1 |-> 0, boingY2 |-> 0 ]

\* the boing resonator of prepare: r = exp (-pi * bw / sr) with pi * bw = 5,
\* w0 = twoPi * 1200 / sr, at the reference rate
BoingR  == ExpNeg((5 * CoefOne) \div RefRate)
BoingW0 == (1200 * Micro) \div RefRate

\* SpringReverb::prepare
SpringPrepare(sr, sp) ==
    SpringSetDamping(SpringSetSize(
      [ preDelayBuf |-> Zeros(msToSamples(sr, PreMs)),
        preDelayPos |-> 0,
        combBufs    |-> << Zeros(msToSamples(sr, CombMs[1])), Zeros(msToSamples(sr, CombMs[2])),
                           Zeros(msToSamples(sr, CombMs[3])), Zeros(msToSamples(sr, CombMs[4])),
                           Zeros(msToSamples(sr, CombMs[5])), Zeros(msToSamples(sr, CombMs[6])),
                           Zeros(msToSamples(sr, CombMs[7])), Zeros(msToSamples(sr, CombMs[8])) >>,
        combPos     |-> <<0, 0, 0, 0, 0, 0, 0, 0>>,
        combState   |-> <<0, 0, 0, 0, 0, 0, 0, 0>>,
        apBufs      |-> << Zeros(msToSamples(sr, ApMs[1])), Zeros(msToSamples(sr, ApMs[2])),
                           Zeros(msToSamples(sr, ApMs[3])), Zeros(msToSamples(sr, ApMs[4])) >>,
        apPos       |-> <<0, 0, 0, 0>>,
        roomCoeff   |-> sp.roomCoeff,
        damp        |-> sp.damp,
        boingA1     |-> SDiv(2 * BoingR * CosPhase(BoingW0), 1000),
        boingA2     |-> -((BoingR * BoingR) \div CoefOne),
        boingB0     |-> SDiv(2 * (CoefOne - BoingR) * SinPhase(BoingW0), 1000),
        boingY1     |-> 0,
        boingY2     |-> 0 ], 50), 50)

\* SpringReverb::reset
SpringReset(sp) ==
    [sp EXCEPT !.preDelayBuf = Zeros(Len(sp.preDelayBuf)),
               !.preDelayPos = 0,
               !.combBufs    = << Zeros(Len(sp.combBufs[1])), Zeros(Len(sp.combBufs[2])),
                                  Zeros(Len(sp.combBufs[3])), Zeros(Len(sp.combBufs[4])),
                                  Zeros(Len(sp.combBufs[5])), Zeros(Len(sp.combBufs[6])),
                                  Zeros(Len(sp.combBufs[7])), Zeros(Len(sp.combBufs[8])) >>,
               !.combState   = <<0, 0, 0, 0, 0, 0, 0, 0>>,
               !.combPos     = <<0, 0, 0, 0, 0, 0, 0, 0>>,
               !.apBufs      = << Zeros(Len(sp.apBufs[1])), Zeros(Len(sp.apBufs[2])),
                                  Zeros(Len(sp.apBufs[3])), Zeros(Len(sp.apBufs[4])) >>,
               !.apPos       = <<0, 0, 0, 0>>,
               !.boingY1     = 0,
               !.boingY2     = 0]

\* if (++pos >= bsz) pos = 0
RingNext(pos, bsz) == IF pos + 1 >= bsz THEN 0 ELSE pos + 1

\* process, comb i: what it read, its new low-pass state, buffer and position
CombStep(sp, i, delayed) ==
    ByValue(sp.combBufs[i][sp.combPos[i] + 1], LAMBDA d :
    ByValue(SDiv(d * (CoefOne - sp.damp) + sp.combState[i] * sp.damp, CoefOne),
            LAMBDA st :
      [ d     |-> d,
        state |-> st,
        buf   |-> [sp.combBufs[i] EXCEPT ![sp.combPos[i] + 1] =
                     delayed + SDiv(st * sp.roomCoeff, CoefOne)],
        pos   |-> RingNext(sp.combPos[i], Len(sp.combBufs[i])) ]))

\* process, allpass i fed with x: its output, new buffer and position
ApStep(sp, i, x) ==
    ByValue(<<sp.apBufs[i][sp.apPos[i] + 1], x>>, LAMBDA p :
      [ out |-> p[1] - SDiv(p[2] - SDiv(p[1], 2), 2),
        buf |-> [sp.apBufs[i] EXCEPT ![sp.apPos[i] + 1] = p[2] + SDiv(p[1], 2)],
        pos |-> RingNext(sp.apPos[i], Len(sp.apBufs[i])) ])

\* process, the boing resonator fed with the pre-delayed input
BoingStep(sp, delayed) ==
    SDiv(sp.boingA1 * sp.boingY1 + sp.boingA2 * sp.boingY2, CoefOne)
      + SDiv(delayed * sp.boingB0, CoefOne)

\* the end of process: the members after the call and the returned value
SpringResult(sp, input, delayed, cb, a1, a2, a3, a4, boingOut) ==
    [ s   |-> [sp EXCEPT
                 !.preDelayBuf = [sp.preDelayBuf EXCEPT ![sp.preDelayPos + 1] = input],
                 !.preDelayPos = RingNext(sp.preDelayPos, Len(sp.preDelayBuf)),
                 !.combBufs    = << cb[1].buf, cb[2].buf, cb[3].buf, cb[4].buf,
                                    cb[5].buf, cb[6].buf, cb[7].buf, cb[8].buf >>,
                 !.combPos     = << cb[1].pos, cb[2].pos, cb[3].pos, cb[4].pos,
                                    cb[5].pos, cb[6].pos, cb[7].pos, cb[8].pos >>,
                 !.combState   = << cb[1].state, cb[2].state, cb[3].state, cb[4].state,
                                    cb[5].state, cb[6].state, cb[7].state, cb[8].state >>,
                 !.apBufs      = << a1.buf, a2.buf, a3.buf, a4.buf >>,
                 !.apPos       = << a1.pos, a2.pos, a3.pos, a4.pos >>,
                 !.boingY2     = sp.boingY1,
                 !.boingY1     = boingOut],
      out |-> a4.out + SDiv(boingOut * 8, 100) ]

\* SpringReverb::process (input)
SpringProcess(sp, input) ==
    ByValue(sp.preDelayBuf[sp.preDelayPos + 1], LAMBDA delayed :
    ByValue(<< CombStep(sp, 1, delayed), CombStep(sp, 2, delayed),
               CombStep(sp, 3, delayed), CombStep(sp, 4, delayed),
               CombStep(sp, 5, delayed), CombStep(sp, 6, delayed),
               CombStep(sp, 7, delayed), CombStep(sp, 8, delayed) >>, LAMBDA cb :
    ByValue(ApStep(sp, 1, SDiv((cb[1].d + cb[2].d + cb[3].d + cb[4].d
                                + cb[5].d + cb[6].d + cb[7].d + cb[8].d) * 7,
                               NUM_COMBS * 10)), LAMBDA a1 :
    ByValue(ApStep(sp, 2, a1.out), LAMBDA a2 :
    ByValue(ApStep(sp, 3, a2.out), LAMBDA a3 :
    ByValue(ApStep(sp, 4, a3.out), LAMBDA a4 :
    ByValue(BoingStep(sp, delayed), LAMBDA boingOut :
      SpringResult(sp, input, delayed, cb, a1, a2, a3, a4, boingOut))))))))

\* ----------------------------------------------------------- ShimmerChorus
\* GRAIN = 4096 = 2^12 in the code; BUF = GRAIN * 4
GRAIN == 2 ^ GrainBits
BUF   == GRAIN * 4

\* int: IntBits bits, two's complement (32 bits in the code)
INT_MIN == -(2 ^ (IntBits - 1))
INT_MAX == 2 ^ (IntBits - 1) - 1

\* ++v on an int.  At INT_MAX the increment overflows: the builds of build.sh
\* (no trapping or sanitizer flags) compile it to an add that wraps round.
IntInc(v) == IF v = INT_MAX THEN INT_MIN ELSE v + 1

\* a & b for an int a and a non-negative int b
RECURSIVE BitAnd(_, _)
BitAnd(a, b) ==
    IF a < 0 THEN BitAnd(a + 2 ^ IntBits, b)
    ELSE IF a = 0 \/ b = 0 THEN 0
    ELSE (a % 2) * (b % 2) + 2 * BitAnd(a \div 2, b \div 2)

\* float: the whole numbers with a significand of FloatBits bits.  FloatUnit
\* is the spacing of the floats at magnitude a; Fl (x) is x rounded to the
\* nearest float, a tie to the one with the even significand, as every float
\* operation and every int-to-float conversion rounds its result.
RECURSIVE FloatUnit(_)
FloatUnit(a) == IF a < 2 ^ FloatBits THEN 1 ELSE 2 * FloatUnit(a \div 2)

Fl(x) ==
    ByValue(x, LAMBDA v :
    ByValue(FloatUnit(Abs(v)), LAMBDA u :
    ByValue(<<Abs(v) \div u, Abs(v) % u>>, LAMBDA qr :
      (IF v < 0 THEN -1 ELSE 1) * u
        * (IF 2 * qr[2] > u \/ (2 * qr[2] = u /\ qr[1] % 2 = 1)
             THEN qr[1] + 1 ELSE qr[1]))))

\* members' initialisers: buf = {}, wPos = 0, r1 = r2 = 0.f
ShimmerConstructed == [ buf |-> Zeros(BUF), wPos |-> 0, r1 |-> 0, r2 |-> 0 ]

\* ShimmerChorus::reset (prepare only calls reset)
ShimmerReset(sh) ==
    [ buf |-> Zeros(BUF), wPos |-> 0, r1 |-> -GRAIN, r2 |-> -(GRAIN \div 2) ]

\* readLinear:  while (p >= BUF) p -= BUF
RECURSIVE WrapDown(_, _)
WrapDown(p, size) ==
    ByValue(p, LAMBDA v : IF v >= size THEN WrapDown(v - size, size) ELSE v)

\* ShimmerChorus::readLinear (pos).  r1 and r2 only ever hold whole numbers
\* (they start at -GRAIN and -GRAIN/2, grow by 2 and are reset to wPos - GRAIN),
\* so frac = 0 and the value is buf[i0] * 1 + buf[i1] * 0.  BUF is a multiple
\* of the float spacing at every position the loops pass through, so their
\* additions and subtractions are exact.
readLinear(buf, pos) ==
    ByValue(BitAnd(WrapDown(WrapUp(pos, BUF), BUF), BUF - 1), LAMBDA i0 :
      [ v  |-> buf[i0 + 1],
        i0 |-> i0,
        i1 |-> BitAnd(i0 + 1, BUF - 1) ])

\* the Hanning window of a grain at read position r, in 1/1000:
\* phase = jlimit (0, 1, (r - wPos + GRAIN) / GRAIN);  0.5 - 0.5 cos (phase twoPi)
GrainWindow(r, wPos) ==
    SDiv(1000 - CosPhase(jlimit(0, Micro,
                                SDiv(Fl(Fl(r - Fl(wPos)) + GRAIN) * Micro, GRAIN))), 2)

\* (a read cursor advanced in exact arithmetic)
GrainAdvanceExact(r, wPos) == IF r + 2 >= wPos THEN wPos - GRAIN ELSE r + 2

\* r += 2.f (with wPos already incremented):
\* if (r >= static_cast<float> (wPos)) r = static_cast<float> (wPos) - GRAIN
GrainAdvance(r, wPos) ==
    ByValue(<<Fl(r + 2), Fl(wPos)>>, LAMBDA p :
      IF p[1] >= p[2] THEN Fl(p[2] - GRAIN) ELSE p[1])

\* ShimmerChorus::process (x, amount): the members after the call, the value
\* returned and the buffer indices the call used (write, grain 1, grain 2)
ShimmerProcess(sh, x, amount) ==
    IF amount * 1000 < One THEN [ s |-> sh, out |-> 0, idx |-> << >> ]
    ELSE
      ByValue(BitAnd(sh.wPos, BUF - 1), LAMBDA w :
      ByValue([sh.buf EXCEPT ![w + 1] = x], LAMBDA buf :
      ByValue(<<readLinear(buf, sh.r1), readLinear(buf, sh.r2),
                IntInc(sh.wPos)>>, LAMBDA s :
        [ s   |-> [ buf  |-> buf,
                    wPos |-> s[3],
                    r1   |-> GrainAdvance(sh.r1, s[3]),
                    r2   |-> GrainAdvance(sh.r2, s[3]) ],
          out |-> SDiv(SDiv(s[1].v * GrainWindow(sh.r1, sh.wPos)
                            + s[2].v * GrainWindow(sh.r2, sh.wPos), 1000) * amount,
                       One),
          idx |-> <<w, s[1].i0, s[1].i1, s[2].i0, s[2].i1>> ])))

\* ------------------------------------------------ SpaceEchoAudioProcessor
\* (a table whose row 10 has two heads instead of three)
ModeTableAltered ==
    << [heads |-> <<TRUE,  FALSE, FALSE>>, reverb |-> FALSE],
       [heads |-> <<FALSE, TRUE,  FALSE>>, reverb |-> FALSE],
       [heads |-> <<FALSE, FALSE, TRUE >>, reverb |-> FALSE],
       [heads |-> <<TRUE,  TRUE,  FALSE>>, reverb |-> FALSE],
       [heads |-> <<TRUE,  FALSE, TRUE >>, reverb |-> FALSE],
       [heads |-> <<FALSE, TRUE,  TRUE >>, reverb |-> FALSE],
       [heads |-> <<TRUE,  TRUE,  TRUE >>, reverb |-> FALSE],
       [heads |-> <<TRUE,  FALSE, FALSE>>, reverb |-> TRUE],
       [heads |-> <<FALSE, TRUE,  FALSE>>, reverb |-> TRUE],
       [heads |-> <<FALSE, FALSE, TRUE >>, reverb |-> TRUE],
       [heads |-> <<TRUE,  TRUE,  FALSE>>, reverb |-> TRUE],
       [heads |-> <<FALSE, FALSE, FALSE>>, reverb |-> TRUE] >>

\* MODE_TABLE[12]: { heads[3], reverb }
MODE_TABLE ==
    << [heads |-> <<TRUE,  FALSE, FALSE>>, reverb |-> FALSE],
       [heads |-> <<FALSE, TRUE,  FALSE>>, reverb |-> FALSE],
       [heads |-> <<FALSE, FALSE, TRUE >>, reverb |-> FALSE],
       [heads |-> <<TRUE,  TRUE,  FALSE>>, reverb |-> FALSE],
       [heads |-> <<TRUE,  FALSE, TRUE >>, reverb |-> FALSE],
       [heads |-> <<FALSE, TRUE,  TRUE >>, reverb |-> FALSE],
       [heads |-> <<TRUE,  TRUE,  TRUE >>, reverb |-> FALSE],
       [heads |-> <<TRUE,  FALSE, FALSE>>, reverb |-> TRUE],
       [heads |-> <<FALSE, TRUE,  FALSE>>, reverb |-> TRUE],
       [heads |-> <<FALSE, FALSE, TRUE >>, reverb |-> TRUE],
       [heads |-> <<TRUE,  TRUE,  TRUE >>, reverb |-> TRUE],
       [heads |-> <<FALSE, FALSE, FALSE>>, reverb |-> TRUE] >>

\* (a table index that is not clamped)
ModeIndexRaw(mode) == mode

\* the index of  MODE_TABLE[juce::jlimit (0, 11, mode)]
ModeIndex(mode) == jlimit(0, 11, mode)

\* what a read of table[idx] can yield: the row, or anything when idx is
\* outside the array (undefined behaviour)
ModeRows(table, idx) ==
    IF idx \in 0..11 THEN {table[idx + 1]}
    ELSE {[heads |-> <<a, b, c>>, reverb |-> r] : a, b, c, r \in BOOLEAN}

\* for (h ...) if (mc.heads[h]) ++numHeads
NumHeads(mc) ==
    (IF mc.heads[1] THEN 1 ELSE 0) + (IF mc.heads[2] THEN 1 ELSE 0)
      + (IF mc.heads[3] THEN 1 ELSE 0)

\* the sum of the active heads, divided by numHeads if numHeads > 0
HeadAverage(mc, numHeads, heads) ==
    ByValue((IF mc.heads[1] THEN heads[1] ELSE 0)
              + (IF mc.heads[2] THEN heads[2] ELSE 0)
              + (IF mc.heads[3] THEN heads[3] ELSE 0), LAMBDA sum :
      IF numHeads > 0 THEN SDiv(sum, numHeads) ELSE sum)

\* (a feedback path without cross-feed)
FeedbackOwn(pingpong, own, other) == own

\* (a feedback path that always cross-feeds)
FeedbackCrossed(pingpong, own, other) == other

\* the echo a channel's feedback is taken from
FeedbackSource(pingpong, own, other) == IF pingpong THEN other ELSE own

\* the parameter defaults of createParameterLayout
ParamDefaults ==
    [ inputGain |-> 717, repeatRate |-> 150, intensity |-> 410,
      bass |-> 0, treble |-> 0, echoLevel |-> 717, reverbLevel |-> 512,
      wowFlutter |-> 307, saturation |-> 307, mode |-> 0,
      tapeNoise |-> 154, shimmer |-> 0, freeze |-> FALSE, pingpong |-> FALSE ]

\* the members as constructed
Constructed ==
    [ currentSampleRate |-> RefRate,
      feedbackL |-> 0, feedbackR |-> 0, shimFeedL |-> 0, shimFeedR |-> 0,
      tapeL |-> TapeConstructed, tapeR |-> TapeConstructed,
      springL |-> SpringConstructed, springR |-> SpringConstructed,
      noiseL |-> NoiseConstructed, noiseR |-> NoiseConstructed,
      shimmerL |-> ShimmerConstructed, shimmerR |-> ShimmerConstructed,
      bassL |-> BiquadConstructed, bassR |-> BiquadConstructed,
      trebleL |-> BiquadConstructed, trebleR |-> BiquadConstructed,
      cachedBassDb |-> 9999, cachedTrebleDb |-> 9999,
      sm |-> [ inputGain |-> SmConstructed, intensity |-> SmConstructed,
               echoLevel |-> SmConstructed, reverbLevel |-> SmConstructed,
               wowFlutter |-> SmConstructed, saturation |-> SmConstructed,
               tapeNoise |-> SmConstructed, shimmer |-> SmConstructed ],
      scopeBuffer |-> Zeros(SCOPE_SIZE), scopeWritePos |-> 0,
      inputLevelL |-> 0, outputLevelL |-> 0,
      testToneEnabled |-> FALSE,
      testTonePhase |-> 0, testTonePhase2 |-> 0, testToneTrigger |-> 0 ]

\* SpaceEchoAudioProcessor::updateEQ
updateEQ(p, bassDb, trebleDb) ==
    IF bassDb = p.cachedBassDb /\ trebleDb = p.cachedTrebleDb THEN p
    ELSE [p EXCEPT !.cachedBassDb   = bassDb,
                   !.cachedTrebleDb = trebleDb,
                   !.bassL.c   = makeLowShelf(p.currentSampleRate, bassDb),
                   !.bassR.c   = makeLowShelf(p.currentSampleRate, bassDb),
                   !.trebleL.c = makeHighShelf(p.currentSampleRate, trebleDb),
                   !.trebleR.c = makeHighShelf(p.currentSampleRate, trebleDb)]

\* the heap allocations of an updateEQ call: none on the early return, else
\* one Coefficients object (with its array) each from makeLowShelf and
\* makeHighShelf, which return  *new Coefficients (...)
EqAllocations(p, bassDb, trebleDb) ==
    IF bassDb = p.cachedBassDb /\ trebleDb = p.cachedTrebleDb THEN 0 ELSE 2

\* prepareToPlay up to the shelving filters' reset: the members prepared for
\* the rate sr (the rate of the shelving filters; the delay lines keep the
\* model's own time axis) and the parameter values q
PrepareMembers(sr, p, q) ==
      [p EXCEPT
         !.currentSampleRate = sr,
         !.feedbackL = 0, !.feedbackR = 0, !.shimFeedL = 0, !.shimFeedR = 0,
         !.tapeL = TapePrepare(p.tapeL, 750, 0),
         !.tapeR = TapePrepare(p.tapeR, 750, 370000),
         !.springL = SpringPrepare(SampleRate, p.springL),
         !.springR = SpringPrepare(SampleRate, p.springR),
         !.noiseL = NoisePrepare(p.noiseL),
         !.noiseR = NoisePrepare(p.noiseR),
         !.shimmerL = ShimmerReset(p.shimmerL),
         !.shimmerR = ShimmerReset(p.shimmerR),
         !.bassL = BiquadReset(p.bassL), !.bassR = BiquadReset(p.bassR),
         !.trebleL = BiquadReset(p.trebleL), !.trebleR = BiquadReset(p.trebleR),
         !.sm = [ inputGain   |-> SmInit(20, q.inputGain),
                  intensity   |-> SmInit(20, q.intensity),
                  echoLevel   |-> SmInit(20, q.echoLevel),
                  reverbLevel |-> SmInit(20, q.reverbLevel),
                  wowFlutter  |-> SmInit(20, q.wowFlutter),
                  saturation  |-> SmInit(20, q.saturation),
                  tapeNoise   |-> SmInit(20, q.tapeNoise),
                  shimmer     |-> SmInit(20, q.shimmer) ],
         !.scopeBuffer = Zeros(SCOPE_SIZE),
         !.scopeWritePos = 0]

\* (a prepareToPlay that leaves the cached bass and treble values as they are)
prepareToPlayKeepsCache(sr, p, q) == updateEQ(PrepareMembers(sr, p, q), 0, 0)

\* SpaceEchoAudioProcessor::prepareToPlay (sr, samplesPerBlock) with the
\* parameter values q:  cachedBassDb = cachedTrebleDb = 9999.f; updateEQ (0.f, 0.f)
prepareToPlayAt(sr, p, q) ==
    updateEQ([PrepareMembers(sr, p, q) EXCEPT !.cachedBassDb = 9999,
                                              !.cachedTrebleDb = 9999], 0, 0)

\* prepareToPlay at the reference rate
prepareToPlay(p, q) == prepareToPlayAt(RefRate, p, q)

\* SpaceEchoAudioProcessor::releaseResources
releaseResources(p) ==
    [p EXCEPT !.tapeL = TapeReset(p.tapeL), !.tapeR = TapeReset(p.tapeR),
              !.springL = SpringReset(p.springL), !.springR = SpringReset(p.springR),
              !.noiseL = NoiseReset(p.noiseL), !.noiseR = NoiseReset(p.noiseR),
              !.shimmerL = ShimmerReset(p.shimmerL),
              !.shimmerR = ShimmerReset(p.shimmerR)]

\* processBlock before the sample loop: updateEQ, setFrozen, setSize,
\* setDamping and the smoother targets, from the parameter values q
BlockParams(p, q) ==
    ByValue(updateEQ(p, q.bass, q.treble), LAMBDA u :
      [u EXCEPT
         !.tapeL = TapeSetFrozen(u.tapeL, q.freeze),
         !.tapeR = TapeSetFrozen(u.tapeR, q.freeze),
         !.springL = SpringSetDamping(SpringSetSize(u.springL, 65), 35),
         !.springR = SpringSetDamping(SpringSetSize(u.springR, 65), 35),
         !.sm = [ inputGain   |-> SmSetTarget(u.sm.inputGain,   q.inputGain),
                  intensity   |-> SmSetTarget(u.sm.intensity,   q.intensity),
                  echoLevel   |-> SmSetTarget(u.sm.echoLevel,   q.echoLevel),
                  reverbLevel |-> SmSetTarget(u.sm.reverbLevel, q.reverbLevel),
                  wowFlutter  |-> SmSetTarget(u.sm.wowFlutter,  q.wowFlutter),
                  saturation  |-> SmSetTarget(u.sm.saturation,  q.saturation),
                  tapeNoise   |-> SmSetTarget(u.sm.tapeNoise,   q.tapeNoise),
                  shimmer     |-> SmSetTarget(u.sm.shimmer,     q.shimmer) ]])

\* the eight getNextValue calls at the top of the sample loop: the smoothers
\* after the calls and the values returned
SmoothersNext(sm) ==
    [ sm     |-> [ inputGain   |-> SmNext(sm.inputGain),
                   intensity   |-> SmNext(sm.intensity),
                   echoLevel   |-> SmNext(sm.echoLevel),
                   reverbLevel |-> SmNext(sm.reverbLevel),
                   wowFlutter  |-> SmNext(sm.wowFlutter),
                   saturation  |-> SmNext(sm.saturation),
                   tapeNoise   |-> SmNext(sm.tapeNoise),
                   shimmer     |-> SmNext(sm.shimmer) ],
      gain   |-> SmRead(sm.inputGain),
      intens |-> SmRead(sm.intensity),
      echoLv |-> SmRead(sm.echoLevel),
      revLv  |-> SmRead(sm.reverbLevel),
      wow    |-> SmRead(sm.wowFlutter),
      sat    |-> SmRead(sm.saturation),
      noise  |-> SmRead(sm.tapeNoise),
      shim   |-> SmRead(sm.shimmer) ]

\* the test tone of the sample loop, at the reference rate: a pulse every
\* 1.5 s of 440 Hz and 554 Hz sines under an envelope.  The members after the
\* pass and the value added to both inputs; phases in Micro units, the
\* envelope in CoefOne units, the sines in 1/1000.
\*   testToneTrigger += 1;  if (testToneTrigger >= pulseLen) { all three = 0 }
\*   env = trigger < 4 ? trigger * 0.25 : exp (-5 * trigger / sr)
\*   tone = (sin (phase) * 0.6 + sin (phase2) * 0.4) * env * 0.4
\*   phase += 440 / sr;  if (phase >= 1) phase -= 1   (and phase2 with 554)
TestTonePhase(ph, hz) ==
    ByValue(ph + (hz * Micro) \div RefRate, LAMBDA n :
      IF n >= Micro THEN n - Micro ELSE n)

TestTone(p) ==
    ByValue(IF p.testToneTrigger + 1 >= (RefRate * 3) \div 2
              THEN <<0, 0, 0>>
              ELSE <<p.testToneTrigger + 1, p.testTonePhase, p.testTonePhase2>>,
            LAMBDA t :
    ByValue(IF t[1] < 4 THEN (t[1] * CoefOne) \div 4
                        ELSE ExpNeg((5 * t[1] * CoefOne) \div RefRate), LAMBDA env :
      [ p    |-> [p EXCEPT !.testToneTrigger = t[1],
                           !.testTonePhase   = TestTonePhase(t[2], 440),
                           !.testTonePhase2  = TestTonePhase(t[3], 554)],
        tone |-> SDiv(SDiv((SinPhase(t[2]) * 6 + SinPhase(t[3]) * 4) * env,
                           10 * CoefOne) * 4 * One, 10000) ]))

\* if (testOn) { ... inL += tone; inR += tone; }
TestToneIf(testOn, p) == IF testOn THEN TestTone(p) ELSE [ p |-> p, tone |-> 0 ]

\* one channel of the sample loop up to the EQ: input gain, test tone, tape
\* noise, the tape delay, the head average and the two shelving filters
ChannelEcho(noise, tp, bass, treble, feedback, sample, tone, sv, b) ==
    ByValue(NoiseProcess(noise, sv.noise), LAMBDA nz :
    ByValue(SDiv(sample * sv.gain, One) + tone + nz.out, LAMBDA inp :
    ByValue(TapeProcess(tp, inp, b.baseDelay, feedback, sv.wow, sv.sat), LAMBDA r :
    ByValue(HeadAverage(b.mc, b.numHeads, r.heads), LAMBDA avg :
    ByValue(EqProcess(bass, treble, avg), LAMBDA eq :
      [ noise |-> nz.n, inp |-> inp, fb |-> feedback,
        tape |-> r.t, taps |-> r.taps, ptTaps |-> r.ptTaps,
        avg |-> avg, bass |-> eq.bass, treble |-> eq.treble, echo |-> eq.out ])))))

\* (a reverb-off branch that leaves the shimmer feedback as it was)
ReverbOffKeeps(spring, shimmer, shimFeed) ==
    [ spring |-> spring, shimmer |-> shimmer, rev |-> 0, shimFeed |-> shimFeed,
      added |-> FALSE, shimTerm |-> 0, idx |-> << >> ]

\* the else branch of  if (mc.reverb):  shimFeedL = shimFeedR = 0.f
ReverbOff(spring, shimmer, shimFeed) ==
    [ spring |-> spring, shimmer |-> shimmer, rev |-> 0, shimFeed |-> 0,
      added |-> FALSE, shimTerm |-> 0, idx |-> << >> ]

\* the then branch of  if (mc.reverb):
\*   rev = spring.process (in + echo * 0.15f + shimFeed);
\*   shimFeed = shimmer.process (rev, shim) * 0.8f
ReverbOn(spring, shimmer, shimFeed, inp, echo, shim) ==
    ByValue(SpringProcess(spring, inp + SDiv(echo * 15, 100) + shimFeed), LAMBDA sp :
    ByValue(ShimmerProcess(shimmer, sp.out, shim), LAMBDA sh :
      [ spring |-> sp.s, shimmer |-> sh.s, rev |-> sp.out,
        shimFeed |-> SDiv(sh.out * 8, 10),
        added |-> TRUE, shimTerm |-> shimFeed, idx |-> sh.idx ]))

\* (a reverb + shimmer section that runs in every mode)
ChannelReverbAlways(reverb, spring, shimmer, shimFeed, inp, echo, shim) ==
    ReverbOn(spring, shimmer, shimFeed, inp, echo, shim)

\* one channel of the reverb + shimmer section
ChannelReverb(reverb, spring, shimmer, shimFeed, inp, echo, shim) ==
    IF reverb THEN ReverbOn(spring, shimmer, shimFeed, inp, echo, shim)
    ELSE ReverbOff(spring, shimmer, shimFeed)

\* mix = in + echo * echoLv + rev * revLv;  out = softClip (mix)
ChannelOut(inp, echo, rev, sv) ==
    ByValue(SDiv(rev * sv.revLv, One), LAMBDA revTerm :
    ByValue(inp + SDiv(echo * sv.echoLv, One) + revTerm, LAMBDA mix :
      [ mix |-> mix, out |-> softClip(mix), revTerm |-> revTerm ]))

\* what is remembered of the pass before the last one
NoPrev ==
    [ valid |-> FALSE, reverb |-> FALSE, pingpong |-> FALSE,
      intens |-> 0, shim |-> 0, echo |-> <<0, 0>> ]

\* what a pass through the sample loop leaves to be observed: the values it
\* used and produced (L, R), the EQ filters as they were before it, the
\* buffer positions it accessed, and the same of the pass before it
NoObs ==
    [ valid |-> FALSE, numHeads |-> 0, reverb |-> FALSE, pingpong |-> FALSE,
      intens |-> 0, shim |-> 0,
      fbIn |-> <<0, 0>>, avg |-> <<0, 0>>, echo |-> <<0, 0>>,
      shimTerm |-> <<0, 0>>, mix |-> <<0, 0>>, out |-> <<0, 0>>,
      revLv |-> 0, revTerm |-> <<0, 0>>,
      eq |-> << >>, taps |-> << >>, shimIdx |-> << >>, scopeIdx |-> 0,
      prev |-> NoPrev ]

\* the end of one pass through the sample loop: members, block locals and
\* observations, from the smoothed values sv, the two echo sections e, the
\* two reverb sections v and the two output sections o
SampleResult(p, b, ob, sv, e, v, o) ==
    [ proc |-> [p EXCEPT
                  !.sm = sv.sm,
                  !.noiseL = e[1].noise, !.noiseR = e[2].noise,
                  !.tapeL = e[1].tape, !.tapeR = e[2].tape,
                  !.bassL = e[1].bass, !.bassR = e[2].bass,
                  !.trebleL = e[1].treble, !.trebleR = e[2].treble,
                  !.feedbackL = SDiv(FeedbackSource(b.pingpong, e[1].echo, e[2].echo)
                                       * sv.intens, One),
                  !.feedbackR = SDiv(FeedbackSource(b.pingpong, e[2].echo, e[1].echo)
                                       * sv.intens, One),
                  !.springL = v[1].spring, !.springR = v[2].spring,
                  !.shimmerL = v[1].shimmer, !.shimmerR = v[2].shimmer,
                  !.shimFeedL = v[1].shimFeed, !.shimFeedR = v[2].shimFeed,
                  !.scopeBuffer = [p.scopeBuffer EXCEPT ![b.scopePos + 1] = o[1].out]],
      blk  |-> [b EXCEPT !.i = @ + 1,
                         !.inAcc = @ + Abs(e[1].inp),
                         !.outAcc = @ + Abs(o[1].out),
                         !.scopePos = (b.scopePos + 1) % SCOPE_SIZE],
      obs  |-> [ valid |-> TRUE, numHeads |-> b.numHeads, reverb |-> b.mc.reverb,
                 pingpong |-> b.pingpong, intens |-> sv.intens, shim |-> sv.shim,
                 fbIn |-> <<e[1].fb, e[2].fb>>,
                 avg |-> <<e[1].avg, e[2].avg>>,
                 echo |-> <<e[1].echo, e[2].echo>>,
                 shimTerm |-> <<v[1].shimTerm, v[2].shimTerm>>,
                 mix |-> <<o[1].mix, o[2].mix>>,
                 out |-> <<o[1].out, o[2].out>>,
                 revLv |-> sv.revLv,
                 revTerm |-> <<o[1].revTerm, o[2].revTerm>>,
                 eq |-> <<p.bassL, p.trebleL, p.bassR, p.trebleR>>,
                 taps |-> e[1].taps \o e[1].ptTaps \o e[2].taps \o e[2].ptTaps,
                 shimIdx |-> v[1].idx \o v[2].idx,
                 scopeIdx |-> b.scopePos,
                 prev |-> [ valid |-> ob.valid, reverb |-> ob.reverb,
                            pingpong |-> ob.pingpong, intens |-> ob.intens,
                            shim |-> ob.shim, echo |-> ob.echo ] ] ]

\* one pass through the sample loop of processBlock for the input samples
\* left[i], right[i]
ProcessSample(p, b, ob, left, right) ==
    ByValue(SmoothersNext(p.sm), LAMBDA sv :
    ByValue(TestToneIf(b.testOn, p), LAMBDA tt :
    ByValue(<< ChannelEcho(p.noiseL, p.tapeL, p.bassL, p.trebleL, p.feedbackL,
                           left, tt.tone, sv, b),
               ChannelEcho(p.noiseR, p.tapeR, p.bassR, p.trebleR, p.feedbackR,
                           right, tt.tone, sv, b) >>, LAMBDA e :
    ByValue(<< ChannelReverb(b.mc.reverb, p.springL, p.shimmerL, p.shimFeedL,
                             e[1].inp, e[1].echo, sv.shim),
               ChannelReverb(b.mc.reverb, p.springR, p.shimmerR, p.shimFeedR,
                             e[2].inp, e[2].echo, sv.shim) >>, LAMBDA v :
    ByValue(<< ChannelOut(e[1].inp, e[1].echo, v[1].rev, sv),
               ChannelOut(e[2].inp, e[2].echo, v[2].rev, sv) >>, LAMBDA o :
      SampleResult(tt.p, b, ob, sv, e, v, o))))))

\* =================================================================== state
VARIABLES
    tape,      \* SpecTape: the TapeDelay under test
    targ,      \* SpecTape: the settings of the run: base delay (ms), wow/flutter
    tcalls,    \* SpecTape: process calls made so far
    tlast,     \* SpecTape: what the last process call read and returned
    tfrz,      \* SpecTape: buffer and cursor when freeze was switched on, the
               \*           outputs of the calls made since, calls left after release
    tpeak,     \* SpecTape: per head, the largest |output| so far and its call
    modeTable, \* the processor's MODE_TABLE
    par,       \* the parameter values held by apvts
    proc,      \* the processor's members
    blk,       \* the processBlock call in progress: its locals
    obs,       \* what the last pass through the sample loop used and produced
    run,       \* SpecProc: prepared or not, and how much of the run is used up
    ui         \* the editor on the message thread: the timerCallback in progress

tapeVars == <<tape, targ, tcalls, tlast, tfrz, tpeak>>
procVars == <<modeTable, par, proc, blk, obs, run>>
vars == <<tape, targ, tcalls, tlast, tfrz, tpeak, modeTable, par, proc, blk, obs, run, ui>>

\* no processBlock call in progress
NoBlock ==
    [ active |-> FALSE, i |-> 0, n |-> 0, mc |-> MODE_TABLE[1], modeIndex |-> 0,
      numHeads |-> 0, baseDelay |-> 0, pingpong |-> FALSE, scopePos |-> 0,
      testOn |-> FALSE, inAcc |-> 0, outAcc |-> 0, allocs |-> 0 ]

\* nothing of the run used up
NoRun ==
    [ prepared |-> FALSE, prepares |-> 0, samples |-> 0, hits |-> 0,
      edits |-> 0, loads |-> 0, released |-> FALSE, changedAt |-> -1 ]

\* OscilloscopeComponent::DISPLAY_POINTS (256 of the ring's 512 in the code)
DISPLAY_POINTS == SCOPE_SIZE \div 2

\* the editor with no timerCallback in progress and nothing displayed yet:
\* the meters, the oscilloscope's displayBuf with, for each point, the place
\* in the output stream of the sample copied (the stream's sample number; the
\* zeros the ring was filled with count backwards from 0), the reels
NoUi ==
    [ pc |-> "idle", writePos |-> 0, i |-> 0,
      vuIn |-> 0, vuOut |-> 0,
      displayBuf |-> [k \in 1..DISPLAY_POINTS |-> 0],
      seen |-> [k \in 1..DISPLAY_POINTS |-> k - DISPLAY_POINTS],
      reelFrozen |-> FALSE, timers |-> 0 ]

\* ---------------------------------------------------------------- SpecTape
\* One TapeDelay, prepared as prepareToPlay prepares tapeL, driven sample by
\* sample.  Base delay and wow/flutter amount are fixed for a run.  The first
\* call may record an impulse; later calls record silence; calls made while
\* frozen are given any drive, for one loop of the buffer and one call more.
BaseMsSet  == {20, 150, 300, 500}
WowSet     == {0, One}
\* what a call is given: input, feedback and saturation amount
Drives ==
    { [input |-> 0,    fb |-> 0,   sat |-> 0],
      [input |-> One,  fb |-> 0,   sat |-> 0],
      [input |-> One,  fb |-> 0,   sat |-> 307],
      [input |-> -One, fb |-> 300, sat |-> 307] }

\* const float baseDelay = repeatMs * 0.001f * (float) currentSampleRate
BaseDelay(repeatMs) == (repeatMs * SampleRate * Frac) \div 1000

NoCall == [ heads |-> Zero3, raw |-> Zero3, delays |-> Zero3,
            taps |-> << >>, ptTaps |-> << >>, hot |-> FALSE, frozen |-> FALSE,
            writePos |-> 0 ]

NoFreeze == [ on |-> FALSE, buffer |-> << >>, writePos |-> 0, since |-> 0,
              outs |-> << >>, tail |-> TailCalls ]

NoPeak == [ impulse |-> FALSE, heads |-> <<[amp |-> 0, at |-> 0],
                                           [amp |-> 0, at |-> 0],
                                           [amp |-> 0, at |-> 0]>> ]

InitTape ==
    /\ tape = TapePrepare(TapeConstructed, 750, 0)
    /\ targ \in [baseMs : BaseMsSet, wow : WowSet]
    /\ tcalls = 0
    /\ tlast = NoCall
    /\ tfrz = NoFreeze
    /\ tpeak = NoPeak
    /\ ui = NoUi
    /\ modeTable = MODE_TABLE
    /\ par = ParamDefaults
    /\ proc = Constructed
    /\ blk = NoBlock
    /\ obs = NoObs
    /\ run = NoRun

\* the last size + 1 outputs since freeze was switched on
PushOut(outs, o, size) ==
    IF Len(outs) <= size THEN Append(outs, o) ELSE Append(Tail(outs), o)

\* the running maximum of |output| of one head
PeakOf(pk, out, call) ==
    IF Abs(out) > pk.amp THEN [amp |-> Abs(out), at |-> call] ELSE pk

\* tape.process (input, baseDelay, fb, wow, sat)
TapeCall(input, fb, sat) ==
    /\ tcalls < MaxCalls
    /\ tape.frozen => tfrz.since < tape.bufferSize + LoopExtra
    /\ ~tape.frozen => /\ fb = 0
                       /\ IF input = 0 THEN sat = 0 ELSE tcalls = 0
                       /\ tfrz.on => tfrz.tail > 0
    /\ \E r \in {TapeProcess(tape, input, BaseDelay(targ.baseMs), fb, targ.wow, sat)} :
         /\ tape' = r.t
         /\ tlast' = [ heads |-> r.heads, raw |-> r.raw, delays |-> r.delays,
                       taps |-> r.taps, ptTaps |-> r.ptTaps,
                       hot |-> (input + fb # 0), frozen |-> tape.frozen,
                       writePos |-> tape.writePos ]
         /\ tfrz' = IF tape.frozen
                      THEN [tfrz EXCEPT !.since = @ + 1,
                                        !.outs = PushOut(@, r.heads, tape.bufferSize)]
                    ELSE IF tfrz.on THEN [tfrz EXCEPT !.tail = @ - 1]
                    ELSE tfrz
         /\ tpeak' = [ impulse |-> IF tcalls = 0
                                     THEN ~tape.frozen /\ input = One /\ sat = 0
                                     ELSE tpeak.impulse,
                       heads |-> << PeakOf(tpeak.heads[1], r.heads[1], tcalls),
                                    PeakOf(tpeak.heads[2], r.heads[2], tcalls),
                                    PeakOf(tpeak.heads[3], r.heads[3], tcalls) >> ]
    /\ tcalls' = tcalls + 1
    /\ UNCHANGED <<targ, procVars, ui>>

\* tape.setFrozen (true)
Freeze ==
    /\ ~tape.frozen
    /\ ~tfrz.on
    /\ tcalls <= FreezeBy
    /\ tape' = TapeSetFrozen(tape, TRUE)
    /\ tfrz' = [ on |-> TRUE, buffer |-> tape.buffer, writePos |-> tape.writePos,
                 since |-> 0, outs |-> << >>, tail |-> TailCalls ]
    /\ UNCHANGED <<targ, tcalls, tlast, tpeak, procVars, ui>>

\* tape.setFrozen (false)
Unfreeze ==
    /\ tape.frozen
    /\ tfrz.since <= ThawBy
    /\ tape' = TapeSetFrozen(tape, FALSE)
    /\ UNCHANGED <<targ, tcalls, tlast, tfrz, tpeak, procVars, ui>>

\* tape.reset()
ResetTape ==
    /\ tcalls <= FreezeBy
    /\ tcalls > 0
    /\ ~tfrz.on
    /\ tape # TapeReset(tape)
    /\ tape' = TapeReset(tape)
    /\ tpeak' = NoPeak
    /\ UNCHANGED <<targ, tcalls, tlast, tfrz, procVars, ui>>

NextTape ==
    \/ \E d \in Drives : TapeCall(d.input, d.fb, d.sat)
    \/ Freeze
    \/ Unfreeze
    \/ ResetTape

SpecTape == InitTape /\ [][NextTape]_vars

\* ---------------------------------------------------------------- SpecProc
\* The processor from construction on: the host restores a state, prepares,
\* calls processBlock with blocks of BlockLen samples and changes parameters
\* between blocks.  processBlock reads the parameters only before its sample
\* loop, so a change made while a block is running is seen as a change made
\* before the next block.  A block's first sample may be a loud one (+24 dB
\* on the left, full scale on the right); all other input samples are silent.

\* the states a host restores with setStateInformation
Presets ==
    { [ inputGain |-> One, repeatRate |-> 20, intensity |-> 512,
        bass |-> 12, treble |-> 0, echoLevel |-> One, reverbLevel |-> 512,
        wowFlutter |-> 0, saturation |-> 0, mode |-> 6,
        tapeNoise |-> 0, shimmer |-> 0, freeze |-> FALSE, pingpong |-> TRUE ],
      [ inputGain |-> One, repeatRate |-> 20, intensity |-> 512,
        bass |-> 0, treble |-> 0, echoLevel |-> 717, reverbLevel |-> One,
        wowFlutter |-> 307, saturation |-> 307, mode |-> 10,
        tapeNoise |-> 154, shimmer |-> One, freeze |-> FALSE, pingpong |-> FALSE ] }

\* the single parameter changes made between blocks.  The mode parameter is an
\* AudioParameterInt with range 0..11; -1 and 12 are values beyond it, which
\* processBlock clamps.
Edits ==
    { [id |-> "mode", v |-> -1], [id |-> "mode", v |-> 0],
      [id |-> "mode", v |-> 10], [id |-> "mode", v |-> 11],
      [id |-> "mode", v |-> 12], [id |-> "intensity", v |-> 922] }

\* the input samples left[i], right[i] of a pass through the sample loop
Inputs == { [left |-> 0, right |-> 0], [left |-> 16 * One, right |-> -One] }

InitProc ==
    /\ modeTable = MODE_TABLE
    /\ par = ParamDefaults
    /\ proc = Constructed
    /\ blk = NoBlock
    /\ obs = NoObs
    /\ run = NoRun
    /\ tape = TapeConstructed
    /\ targ = [baseMs |-> 20, wow |-> 0]
    /\ tcalls = 0
    /\ tlast = NoCall
    /\ tfrz = NoFreeze
    /\ tpeak = NoPeak
    /\ ui = NoUi

\* setStateInformation: apvts.replaceState
SetStateInformation(q) ==
    /\ ~blk.active
    /\ run.loads < MaxLoads
    /\ run.samples = 0
    /\ par # q
    /\ par' = q
    /\ run' = [run EXCEPT !.loads = @ + 1]
    /\ UNCHANGED <<modeTable, proc, blk, obs, tapeVars, ui>>

\* a parameter of apvts is set
SetParameter(id, v) ==
    /\ ~blk.active
    /\ run.edits < MaxEdits
    /\ obs.valid
    /\ par[id] # v
    /\ par' = [par EXCEPT ![id] = v]
    /\ run' = [run EXCEPT !.edits = @ + 1]
    /\ UNCHANGED <<modeTable, proc, blk, obs, tapeVars, ui>>

\* prepareToPlay (sampleRate, samplesPerBlock)
PrepareToPlay ==
    /\ ~blk.active
    /\ run.prepares < MaxPrepares
    /\ run.prepared => obs.valid
    /\ proc' = prepareToPlay(proc, par)
    /\ obs' = NoObs
    /\ run' = [run EXCEPT !.prepared = TRUE, !.prepares = @ + 1]
    /\ UNCHANGED <<modeTable, par, blk, tapeVars, ui>>

\* releaseResources()
ReleaseResources ==
    /\ ~blk.active
    /\ run.prepared
    /\ ~run.released
    /\ obs.valid
    /\ proc' = releaseResources(proc)
    /\ run' = [run EXCEPT !.prepared = FALSE, !.released = TRUE]
    /\ UNCHANGED <<modeTable, par, blk, obs, tapeVars, ui>>

\* processBlock up to the sample loop
BlockStart ==
    /\ run.prepared
    /\ ~blk.active
    /\ run.samples < MaxSamples
    /\ \E mc \in ModeRows(modeTable, ModeIndex(par.mode)) :
         blk' = [ active |-> TRUE, i |-> 0,
                  n |-> Min(BlockLen, MaxSamples - run.samples),
                  mc |-> mc, modeIndex |-> ModeIndex(par.mode),
                  numHeads |-> NumHeads(mc),
                  baseDelay |-> BaseDelay(par.repeatRate),
                  pingpong |-> par.pingpong,
                  scopePos |-> proc.scopeWritePos,
                  testOn |-> proc.testToneEnabled,
                  inAcc |-> 0, outAcc |-> 0,
                  allocs |-> EqAllocations(proc, par.bass, par.treble) ]
    /\ proc' = BlockParams(proc, par)
    /\ UNCHANGED <<modeTable, par, obs, run, tapeVars, ui>>

\* (a sample loop that reads the ping-pong parameter in every pass)
SampleStepLive(left, right) ==
    /\ blk.active
    /\ blk.i < blk.n
    /\ (left # 0 \/ right # 0) => (blk.i = 0 /\ run.hits < MaxHits)
    /\ \E r \in {ProcessSample(proc, [blk EXCEPT !.pingpong = par.pingpong],
                                obs, left, right)} :
         /\ proc' = r.proc
         /\ blk' = r.blk
         /\ obs' = r.obs
    /\ run' = [run EXCEPT !.samples = @ + 1,
                          !.hits = IF left # 0 \/ right # 0 THEN @ + 1 ELSE @]
    /\ UNCHANGED <<modeTable, par, tapeVars, ui>>

\* one pass through the sample loop of processBlock
SampleStep(left, right) ==
    /\ blk.active
    /\ blk.i < blk.n
    /\ (left # 0 \/ right # 0) => (blk.i = 0 /\ run.hits < MaxHits)
    /\ \E r \in {ProcessSample(proc, blk, obs, left, right)} :
         /\ proc' = r.proc
         /\ blk' = r.blk
         /\ obs' = r.obs
    /\ run' = [run EXCEPT !.samples = @ + 1,
                          !.hits = IF left # 0 \/ right # 0 THEN @ + 1 ELSE @]
    /\ UNCHANGED <<modeTable, par, tapeVars, ui>>

\* processBlock after the sample loop
BlockEnd ==
    /\ blk.active
    /\ blk.i = blk.n
    /\ proc' = [proc EXCEPT !.scopeWritePos = blk.scopePos,
                            !.inputLevelL  = SDiv(blk.inAcc, Max(1, blk.n)),
                            !.outputLevelL = SDiv(blk.outAcc, Max(1, blk.n))]
    /\ blk' = NoBlock
    /\ UNCHANGED <<modeTable, par, obs, run, tapeVars, ui>>

NextProc ==
    \/ \E q \in Presets : SetStateInformation(q)
    \/ \E e \in Edits : SetParameter(e.id, e.v)
    \/ PrepareToPlay
    \/ ReleaseResources
    \/ BlockStart
    \/ \E s \in Inputs : SampleStep(s.left, s.right)
    \/ BlockEnd

SpecProc == InitProc /\ [][NextProc]_vars

\* ================================================================== claims
\* what a frozen call with silent input would return
SilentCall == TapeProcess(tape, 0, BaseDelay(targ.baseMs), 0, targ.wow, 0)

\* some sample of the buffer b is not silent
Recorded(b) == \E i \in DOMAIN b : b[i] # 0

\* C1: while the tape is frozen a process call leaves the buffer as it was,
\* whatever input, feedback and saturation it is given; the write cursor still
\* advances by one (circularly), and each of the three heads is still read:
\* its value is the interpolation of the unchanged buffer at its delay.
C1_FrozenNeverRecords ==
    [][ (tape.frozen /\ tcalls' = tcalls + 1) =>
          /\ tape'.buffer = tape.buffer
          /\ tape'.writePos = (tape.writePos + 1) % tape.bufferSize
          /\ \A h \in Heads :
               tlast'.raw[h] = readCubic(tape.buffer, tape.writePos,
                                         tape.bufferSize, tlast'.delays[h]) ]_vars

\* C1 witness: a frozen call was given a non-silent drive, the buffer holds a
\* recording, and a head read a non-silent value from it.
C1_Witness ==
    /\ tape.frozen /\ tlast.frozen /\ tlast.hot
    /\ Recorded(tape.buffer)
    /\ tlast.raw # Zero3

\* C2 (as the code has it): from the moment freeze is switched on until it is
\* switched off, the buffer stays what it was at that moment, the cursor runs
\* through it with period bufferSize, and the head outputs and the whole tape
\* state after a call are those of a call with silent input and feedback.
C2_FrozenLoop ==
    [][ (tape.frozen /\ tcalls' = tcalls + 1) =>
          /\ tape'.buffer = tfrz.buffer
          /\ tape'.writePos = (tfrz.writePos + tfrz'.since) % tape.bufferSize
          /\ \E s \in {SilentCall} : tlast'.heads = s.heads /\ tape' = s.t ]_vars

\* C2 witness: an impulse was recorded, freeze was switched on, and the frozen
\* tape has been through more than one loop of the buffer, the last call with
\* a non-silent drive.
C2_Witness ==
    /\ tape.frozen /\ tlast.hot
    /\ Recorded(tfrz.buffer)
    /\ tfrz.since > tape.bufferSize

\* C2 (as stated): after an impulse and freeze, the head outputs repeat with
\* period bufferSize: the output of a frozen call equals the output of the
\* frozen call bufferSize calls earlier.
C2_OutputPeriodic ==
    (tape.frozen /\ Recorded(tfrz.buffer) /\ Len(tfrz.outs) = tape.bufferSize + 1)
      => tfrz.outs[tape.bufferSize + 1] = tfrz.outs[1]

\* round (baseDelaySamples * ratio) for head h
ExpectedPeak(repeatMs, h) ==
    (repeatMs * SampleRate * HEAD_RATIOS[h] + 500000) \div 1000000

\* C3 (as stated): with modulation 0 and the tape prepared with maxDelayMs 750,
\* an impulse written at call 0 is read back by each head with its peak at
\* call round (baseDelaySamples * ratio), within the interpolation tolerance.
C3_PeakAtRatio ==
    (tcalls = MaxCalls /\ tpeak.impulse /\ ~tfrz.on /\ targ.wow = 0)
      => \A h \in Heads :
           Abs(tpeak.heads[h].at - ExpectedPeak(targ.baseMs, h)) <= PeakTol

\* the four taps of a readCubic call lie in a buffer of the given size
TapsIn(p, size) ==
    /\ p.im1 \in 0..(size - 1)
    /\ p.i1 \in 0..(size - 1)
    /\ p.i2 \in 0..(size - 1)
    /\ p.i3 \in 0..(size - 1)

\* the positions a SpringReverb reads and writes lie in its buffers
SpringInBounds(sp) ==
    /\ sp.preDelayPos \in 0..(Len(sp.preDelayBuf) - 1)
    /\ \A i \in 1..NUM_COMBS : sp.combPos[i] \in 0..(Len(sp.combBufs[i]) - 1)
    /\ \A i \in 1..NUM_ALLPASS : sp.apPos[i] \in 0..(Len(sp.apBufs[i]) - 1)

\* C4: once prepared, whatever the mode parameter (out-of-range values
\* included), the repeat rate and the modulation, every array position that
\* processBlock uses is inside its array: the mode-table index is in 0..11,
\* the taps of every readCubic call (playback and print-through, both tapes)
\* and the tape write cursors are in [0, bufferSize), the spring pre-delay, comb
\* and allpass positions are inside their buffers, the shimmer write and read
\* indices are in [0, BUF), and the scope index is in [0, SCOPE_SIZE).
C4_AccessesInBounds ==
    run.prepares > 0 =>
      /\ blk.active => blk.modeIndex \in 0..11
      /\ \A k \in DOMAIN obs.taps : TapsIn(obs.taps[k], proc.tapeL.bufferSize)
      /\ proc.tapeL.writePos \in 0..(proc.tapeL.bufferSize - 1)
      /\ proc.tapeR.writePos \in 0..(proc.tapeR.bufferSize - 1)
      /\ SpringInBounds(proc.springL)
      /\ SpringInBounds(proc.springR)
      /\ \A k \in DOMAIN obs.shimIdx : obs.shimIdx[k] \in 0..(BUF - 1)
      /\ obs.scopeIdx \in 0..(SCOPE_SIZE - 1)
      /\ blk.scopePos \in 0..(SCOPE_SIZE - 1)

\* C4 witness: a block runs with the mode parameter outside 0..11, the tape,
\* the reverb and the shimmer have just been used, a read position of the
\* shimmer behind the start of its buffer has been wrapped to the buffer's end
\* (beyond the write index) and the scope cursor has gone round its ring.
C4_Witness ==
    /\ blk.active /\ obs.valid
    /\ par.mode \notin 0..11
    /\ obs.taps # << >>
    /\ obs.shimIdx # << >>
    /\ \E k \in 2..Len(obs.shimIdx) : obs.shimIdx[k] > obs.shimIdx[1] + 1
    /\ run.samples > SCOPE_SIZE

\* the Mode Reference table of the README, rows "Mode 1" .. "Mode 12": the
\* heads active and whether the reverb is on
DocumentedModes ==
    << [heads |-> {1},       reverb |-> FALSE],
       [heads |-> {2},       reverb |-> FALSE],
       [heads |-> {3},       reverb |-> FALSE],
       [heads |-> {1, 2},    reverb |-> FALSE],
       [heads |-> {1, 3},    reverb |-> FALSE],
       [heads |-> {2, 3},    reverb |-> FALSE],
       [heads |-> {1, 2, 3}, reverb |-> FALSE],
       [heads |-> {1},       reverb |-> TRUE],
       [heads |-> {2},       reverb |-> TRUE],
       [heads |-> {3},       reverb |-> TRUE],
       [heads |-> {1, 2, 3}, reverb |-> TRUE],
       [heads |-> {},        reverb |-> TRUE] >>

\* C5: in every state, for every index i in 0..11 the table entry looked up
\* for i has the heads and the reverb flag of row i of the documented table;
\* so no operation changes the table.
C5_ModeTableAsDocumented ==
    \A i \in 0..11 :
      \A row \in ModeRows(modeTable, ModeIndex(i)) :
        /\ {h \in Heads : row.heads[h]} = DocumentedModes[i + 1].heads
        /\ row.reverb = DocumentedModes[i + 1].reverb

\* C5 witness: a block has looked up the last row (no heads, reverb) and has
\* processed a sample with it.
C5_Witness ==
    /\ blk.active /\ obs.valid
    /\ blk.modeIndex = 11
    /\ blk.mc = modeTable[12]
    /\ obs.numHeads = 0 /\ obs.reverb

\* C6 (as stated): in a sample processed with no active heads the echo term,
\* the value that feeds the feedback store, the reverb input and the output
\* mix, is 0.
C6_NoHeadsEchoZero ==
    (obs.valid /\ obs.numHeads = 0) => obs.echo = <<0, 0>>

\* the previous pass's echo that a channel's feedback is taken from, times
\* the previous pass's intensity
PrevFeedback(own, other) ==
    SDiv((IF obs.prev.pingpong THEN obs.prev.echo[other] ELSE obs.prev.echo[own])
           * obs.prev.intens, One)

\* the head average x through the bass filter f1 and then the treble filter f2
Shelved(f1, f2, x) == BiquadProcess(f2, BiquadProcess(f1, x).out).out

\* C7: the feedback passed to TapeDelay::process in a sample is the echo of
\* the previous sample (the head average after the bass and then the treble
\* filter; the other channel's when ping-pong was on) times the previous
\* sample's smoothed intensity, and 0 in the first sample after prepareToPlay;
\* the echo that is stored is the head average after both filters.
C7_FeedbackOneSampleDelay ==
    obs.valid =>
      /\ obs.fbIn = IF obs.prev.valid
                      THEN <<PrevFeedback(1, 2), PrevFeedback(2, 1)>>
                      ELSE <<0, 0>>
      /\ obs.echo[1] = Shelved(obs.eq[1], obs.eq[2], obs.avg[1])
      /\ obs.echo[2] = Shelved(obs.eq[3], obs.eq[4], obs.avg[2])

\* C7 witness: non-zero feedback was passed to both tapes while the intensity
\* was ramping and the EQ was changing the head average.
C7_Witness ==
    /\ obs.valid /\ obs.prev.valid
    /\ obs.fbIn[1] # 0 /\ obs.fbIn[2] # 0
    /\ obs.prev.intens # obs.intens
    /\ obs.echo[1] # obs.avg[1]

\* C8: after a sample processed with ping-pong on, the stored left feedback
\* is the right echo times the intensity and the stored right feedback is the
\* left echo times the intensity; with ping-pong off each channel's stored
\* feedback is its own echo times the intensity.
C8_PingPongCrossFeed ==
    obs.valid =>
      IF obs.pingpong
        THEN /\ proc.feedbackL = SDiv(obs.echo[2] * obs.intens, One)
             /\ proc.feedbackR = SDiv(obs.echo[1] * obs.intens, One)
        ELSE /\ proc.feedbackL = SDiv(obs.echo[1] * obs.intens, One)
             /\ proc.feedbackR = SDiv(obs.echo[2] * obs.intens, One)

\* C8 witness: ping-pong is on and the two channels have stored different,
\* non-zero feedback.
C8_Witness ==
    /\ obs.valid /\ obs.pingpong
    /\ proc.feedbackL # 0 /\ proc.feedbackR # 0
    /\ proc.feedbackL # proc.feedbackR
    /\ obs.echo[1] # obs.echo[2]

\* C9: in a sample processed with the reverb on, the shimmer feedback term
\* added to the reverb input is 0 if the previous sample was processed with
\* shimmer amount 0 or with the reverb off (or if there was none since
\* prepareToPlay); so it is non-zero only after a sample with the reverb on
\* and a shimmer amount above 0.
C9_ShimmerTermGated ==
    (obs.valid /\ obs.reverb
       /\ (~obs.prev.valid \/ obs.prev.shim = 0 \/ ~obs.prev.reverb))
      => obs.shimTerm = <<0, 0>>

\* C9 witness: the shimmer has produced feedback, then a sample was processed
\* with the reverb off, and now a sample has been processed with the reverb on
\* again: the term added was 0 although the shimmer buffer is not silent.
C9_Witness ==
    /\ obs.valid /\ obs.reverb
    /\ obs.prev.valid /\ ~obs.prev.reverb
    /\ obs.shimTerm = <<0, 0>>
    /\ \E i \in DOMAIN proc.shimmerL.buf : proc.shimmerL.buf[i] # 0
    /\ proc.shimFeedL # 0

\* C10 (as stated): every sample written to the output is strictly below
\* 1/0.9 in magnitude and does not exceed digital full scale.
C10_OutputBelowCeiling ==
    obs.valid =>
      \A c \in 1..2 : /\ Abs(obs.out[c]) * 9 < One * 10
                      /\ Abs(obs.out[c]) <= One

\* ---------------------------------------------------------------- SpecLoop
\* The processor with parameters that stay as they are: it is prepared with
\* one of a few permitted settings, its components may be reset once, and it
\* processes blocks in which at most one sample, a block's first, is a
\* full-scale one and all the others are silent.

\* the settings.  For the feedback loop: shortest repeat rate, no wow/flutter,
\* no tape noise, intensity 0.4 or 0.95, treble 0 or +12 dB, saturation 0 or
\* 1, ping-pong off or on, head 1 or all heads.  For the components: the
\* defaults with all heads, reverb off or on, tape noise 0 or 0.15, shimmer 0
\* or 1.
LoopSettings ==
    { [ParamDefaults EXCEPT !.inputGain = One, !.repeatRate = 20,
                            !.intensity = i, !.treble = t, !.saturation = s,
                            !.wowFlutter = 0, !.tapeNoise = 0,
                            !.pingpong = pp, !.mode = m] :
        i \in {410, 972}, t \in {0, 12}, s \in {0, One},
        pp \in BOOLEAN, m \in {0, 6} }
    \cup
    { [ParamDefaults EXCEPT !.repeatRate = 20, !.mode = m,
                            !.tapeNoise = n, !.shimmer = sh] :
        m \in {6, 10}, n \in {0, 154}, sh \in {0, One} }

\* the input samples left[i], right[i] of SpecLoop
LoopInputs == { [left |-> 0, right |-> 0], [left |-> One, right |-> -One] }

InitLoop ==
    /\ modeTable = MODE_TABLE
    /\ par \in LoopSettings
    /\ proc = Constructed
    /\ blk = NoBlock
    /\ obs = NoObs
    /\ run = NoRun
    /\ tape = TapeConstructed
    /\ targ = [baseMs |-> 20, wow |-> 0]
    /\ tcalls = 0
    /\ tlast = NoCall
    /\ tfrz = NoFreeze
    /\ tpeak = NoPeak
    /\ ui = NoUi

\* the components' reset (): releaseResources, after which the host goes on
\* calling processBlock
ResetComponents ==
    /\ ~blk.active
    /\ run.prepared
    /\ ~run.released
    /\ proc' = releaseResources(proc)
    /\ run' = [run EXCEPT !.released = TRUE]
    /\ UNCHANGED <<modeTable, par, blk, obs, tapeVars, ui>>

\* no value stored in a tape's buffer is above cap in magnitude
StoredWithin(t, cap) == \A i \in DOMAIN t.buffer : Abs(t.buffer[i]) <= cap

\* a run is followed while the tapes hold no more than LoopCap times full scale
NextLoop ==
    \/ PrepareToPlay
    \/ ResetComponents
    \/ BlockStart
    \/ \E s \in LoopInputs :
         /\ blk.active
         /\ StoredWithin(proc.tapeL, LoopCap * One)
         /\ StoredWithin(proc.tapeR, LoopCap * One)
         /\ SampleStep(s.left, s.right)
    \/ BlockEnd

SpecLoop == InitLoop /\ [][NextLoop]_vars

\* C11 (as stated): the recirculating echo does not grow: with inputs of at
\* most full scale and an input gain of at most 1, no value stored on either
\* tape is larger in magnitude than full scale, whatever the permitted
\* intensity, EQ, saturation, mode and ping-pong setting.
C11_EchoDoesNotGrow ==
    run.prepared =>
      /\ StoredWithin(proc.tapeL, One)
      /\ StoredWithin(proc.tapeR, One)

\* ------------------------------------------------------------------- C12
\* every buffer and every filter state of a tape, a spring and a shimmer is
\* zero
TapeSilent(t) ==
    /\ StoredWithin(t, 0)
    /\ t.headLpState = Zero3 /\ t.bumpHiState = Zero3
    /\ t.bumpLoState = Zero3 /\ t.hpState = Zero3
SpringSilent(s) ==
    /\ \A i \in DOMAIN s.preDelayBuf : s.preDelayBuf[i] = 0
    /\ \A c \in DOMAIN s.combBufs : \A i \in DOMAIN s.combBufs[c] : s.combBufs[c][i] = 0
    /\ \A a \in DOMAIN s.apBufs : \A i \in DOMAIN s.apBufs[a] : s.apBufs[a][i] = 0
    /\ s.combState = <<0, 0, 0, 0, 0, 0, 0, 0>>
    /\ s.boingY1 = 0 /\ s.boingY2 = 0
ShimmerSilent(s) == \A i \in DOMAIN s.buf : s.buf[i] = 0

SpringSizes(s) ==
    << Len(s.preDelayBuf), [c \in DOMAIN s.combBufs |-> Len(s.combBufs[c])],
       [a \in DOMAIN s.apBufs |-> Len(s.apBufs[a])] >>

\* C13: reset is idempotent and size-preserving for every component: in every
\* state reached by prepare and process calls, resetting twice gives the same
\* state as resetting once, and a reset leaves the length of every buffer as
\* it is; the same holds for releaseResources, which resets them all.
C13_ResetIdempotent ==
    /\ run.prepared =>
         /\ \A t \in {proc.tapeL, proc.tapeR} :
              /\ TapeReset(TapeReset(t)) = TapeReset(t)
              /\ DOMAIN TapeReset(t).buffer = DOMAIN t.buffer
              /\ TapeReset(t).bufferSize = t.bufferSize
         /\ releaseResources(releaseResources(proc)) = releaseResources(proc)
    /\ \A s \in {proc.springL, proc.springR} :
         /\ SpringReset(SpringReset(s)) = SpringReset(s)
         /\ SpringSizes(SpringReset(s)) = SpringSizes(s)
    /\ \A s \in {proc.shimmerL, proc.shimmerR} :
         /\ ShimmerReset(ShimmerReset(s)) = ShimmerReset(s)
         /\ Len(ShimmerReset(s).buf) = Len(s.buf)
    /\ \A n \in {proc.noiseL, proc.noiseR} :
         NoiseReset(NoiseReset(n)) = NoiseReset(n)

\* samples have been processed and a reset changes the tape, the spring, the
\* shimmer and the noise source
C13_Witness ==
    /\ run.prepared /\ obs.valid
    /\ TapeReset(proc.tapeL) # proc.tapeL
    /\ ~StoredWithin(proc.tapeL, 0)
    /\ SpringReset(proc.springL) # proc.springL
    /\ ShimmerReset(proc.shimmerL) # proc.shimmerL
    /\ NoiseReset(proc.noiseL) # proc.noiseL

\* ------------------------------------------------------------- SpecThreads
\* The audio thread and the message thread side by side: the host prepares
\* the processor once and calls processBlock; the editor's timer fires at any
\* moment, between two passes of the sample loop as well, and its copy of the
\* scope ring proceeds one point at a time.

\* the place in the output stream of the sample held in the ring's slot
\* (0-based) at this moment: the slot written last holds sample run.samples,
\* the one before it the sample before, and so on round the ring
StreamPlace(slot) ==
    ByValue(IF blk.active THEN blk.scopePos ELSE proc.scopeWritePos, LAMBDA cursor :
      run.samples - ((cursor - 1 - slot) % SCOPE_SIZE))

\* SpaceEchoAudioProcessorEditor::timerCallback up to the copy loop of
\* OscilloscopeComponent::refresh: the meters are set and the published
\* write position is loaded
TimerCallback ==
    /\ ui.pc = "idle"
    /\ ui.timers < MaxTimers
    /\ ui' = [ui EXCEPT !.pc = "copy", !.i = 0,
                        !.vuIn = proc.inputLevelL, !.vuOut = proc.outputLevelL,
                        !.writePos = proc.scopeWritePos,
                        !.timers = @ + 1]
    /\ UNCHANGED <<procVars, tapeVars>>

\* one pass of refresh's loop:
\*   start = (writePos - DISPLAY_POINTS + size) % size;
\*   displayBuf[i] = data[(start + i) % size]
RefreshCopy ==
    /\ ui.pc = "copy"
    /\ ui.i < DISPLAY_POINTS
    /\ \E slot \in { (((ui.writePos - DISPLAY_POINTS + SCOPE_SIZE) % SCOPE_SIZE) + ui.i)
                       % SCOPE_SIZE } :
         ui' = [ui EXCEPT !.displayBuf[ui.i + 1] = proc.scopeBuffer[slot + 1],
                          !.seen[ui.i + 1] = StreamPlace(slot),
                          !.i = @ + 1]
    /\ UNCHANGED <<procVars, tapeVars>>

\* after the loop: repaint (), and the rest of timerCallback (the reels)
RefreshDone ==
    /\ ui.pc = "copy"
    /\ ui.i = DISPLAY_POINTS
    /\ ui' = [ui EXCEPT !.pc = "idle", !.reelFrozen = par.freeze]
    /\ UNCHANGED <<procVars, tapeVars>>

NextThreads ==
    \/ run.samples = 0 /\ PrepareToPlay
    \/ BlockStart
    \/ \E s \in Inputs : SampleStep(s.left, s.right)
    \/ BlockEnd
    \/ TimerCallback
    \/ RefreshCopy
    \/ RefreshDone

SpecThreads == InitProc /\ [][NextThreads]_vars

\* ------------------------------------------------------------------- C14
\* C14 (as stated): a snapshot of the scope ring taken by the editor while
\* the audio thread keeps writing holds, in order and without tearing, the
\* most recently written output samples: at the least, once the copy is
\* complete the points displayed are consecutive samples of the output
\* stream, whatever the interleaving of the two threads.
C14_SnapshotUntorn ==
    (ui.timers > 0 /\ ui.pc = "idle") =>
      \A k \in 1..(DISPLAY_POINTS - 1) : ui.seen[k + 1] = ui.seen[k] + 1

\* ------------------------------------------------------------------- C15
\* C15 (as stated): no step executed inside processBlock allocates memory,
\* the block in which the bass or treble parameter has changed included: the
\* processBlock call in progress has made no heap allocation.
C15_NoAllocation == blk.active => blk.allocs = 0

\* ------------------------------------------------------------------- C16
\* the passes that readLinear (pos) makes through its two wrapping loops,
\*   while (p < 0) p += BUF;   while (p >= BUF) p -= BUF
RECURSIVE LoopsUp(_)
LoopsUp(p) == IF p < 0 THEN 1 + LoopsUp(p + BUF) ELSE 0
RECURSIVE LoopsDown(_)
LoopsDown(p) == IF p >= BUF THEN 1 + LoopsDown(p - BUF) ELSE 0
ReadLinearLoops(pos) == LoopsUp(pos) + LoopsDown(WrapUp(pos, BUF))

\* C16 (as stated): the work per processed sample is bounded by a constant
\* that does not depend on how many samples have been processed since
\* prepare/reset: the wrapping loops of ShimmerChorus::readLinear make, for
\* either grain, no more passes in the next call than they can make in the
\* first call after a reset, which is one.
C16_BoundedLoops ==
    \A sh \in {proc.shimmerL, proc.shimmerR} :
      ReadLinearLoops(sh.r1) <= 1 /\ ReadLinearLoops(sh.r2) <= 1

\* ------------------------------------------------------------- SpecControl
\* The audio thread and the control thread side by side: the host prepares
\* the processor and calls processBlock; at any moment, between two passes of
\* the sample loop as well, a parameter is set or the editor's test-tone
\* button is clicked.

\* the values the control thread sets, besides switching ping-pong or freeze
\* on
Changes ==
    { [id |-> "mode", v |-> 10], [id |-> "repeatRate", v |-> 40],
      [id |-> "bass", v |-> 12], [id |-> "treble", v |-> -12] }

\* a parameter of apvts is set while the audio thread may be inside
\* processBlock
ControlChange(id, v) ==
    /\ run.prepared
    /\ run.edits < MaxChanges
    /\ par[id] # v
    /\ par' = [par EXCEPT ![id] = v]
    /\ run' = [run EXCEPT !.edits = @ + 1, !.changedAt = run.samples]
    /\ UNCHANGED <<modeTable, proc, blk, obs, tapeVars, ui>>

\* setTestTone (e), from the button's onClick
SetTestTone(e) ==
    /\ run.prepared
    /\ run.edits < MaxChanges
    /\ proc.testToneEnabled # e
    /\ proc' = [proc EXCEPT !.testToneEnabled = e]
    /\ run' = [run EXCEPT !.edits = @ + 1, !.changedAt = run.samples]
    /\ UNCHANGED <<modeTable, par, blk, obs, tapeVars, ui>>

NextControl ==
    \/ run.samples = 0 /\ PrepareToPlay
    \/ BlockStart
    \/ \E s \in Inputs : SampleStep(s.left, s.right)
    \/ BlockEnd
    \/ \E c \in Changes : ControlChange(c.id, c.v)
    \/ \E id \in {"pingpong", "freeze"} : ControlChange(id, TRUE)
    \/ \E e \in BOOLEAN : SetTestTone(e)

SpecControl == InitProc /\ [][NextControl]_vars

\* ------------------------------------------------------------------- C17
\* what a processBlock call has read at its start: the locals mode (as the
\* table's row and the head count), pingpong, baseDelay (from repeatMs) and
\* testOn, and the members updateEQ and setFrozen have set from bassDb,
\* trebleDb and frozen
BlockRate(b, p) ==
    << b.mc, b.modeIndex, b.numHeads, b.pingpong, b.baseDelay, b.testOn,
       p.cachedBassDb, p.cachedTrebleDb, p.bassL.c, p.bassR.c,
       p.trebleL.c, p.trebleR.c, p.tapeL.frozen, p.tapeR.frozen >>

\* C17: mode, freeze, ping-pong, repeat rate, bass/treble and the test-tone
\* flag are read once, at the start of processBlock: the step that starts a
\* block takes the values the control thread has set last; no step made while
\* the block is in progress, a change by the control thread included, alters
\* what the block has read; every pass of the sample loop uses those values,
\* and the test tone runs in a pass exactly if the flag was on at the start.
C17_ReadOncePerBlock ==
    [][ /\ (~blk.active /\ blk'.active) =>
             /\ blk'.mc \in ModeRows(modeTable, ModeIndex(par.mode))
             /\ blk'.numHeads = NumHeads(blk'.mc)
             /\ blk'.pingpong = par.pingpong
             /\ blk'.baseDelay = BaseDelay(par.repeatRate)
             /\ blk'.testOn = proc.testToneEnabled
             /\ proc'.cachedBassDb = par.bass /\ proc'.cachedTrebleDb = par.treble
             /\ proc'.bassL.c = LowShelf(par.bass)
             /\ proc'.trebleL.c = HighShelf(par.treble)
             /\ proc'.tapeL.frozen = par.freeze /\ proc'.tapeR.frozen = par.freeze
        /\ (blk.active /\ blk'.active) => BlockRate(blk', proc') = BlockRate(blk, proc)
        /\ (blk.active /\ blk'.active /\ blk'.i = blk.i + 1) =>
             /\ obs'.numHeads = blk.numHeads
             /\ obs'.reverb = blk.mc.reverb
             /\ obs'.pingpong = blk.pingpong
             /\ (proc'.testToneTrigger # proc.testToneTrigger) <=> blk.testOn
      ]_vars

\* a value was changed while the block was in progress and passes of the
\* sample loop have been made since: the block still has the old ping-pong
\* setting, or the old state of the test-tone flag
C17_Witness ==
    /\ blk.active /\ obs.valid
    /\ run.changedAt >= 0
    /\ run.samples >= run.changedAt + 2
    /\ blk.i >= 2
    /\ \/ blk.pingpong # par.pingpong
       \/ blk.testOn # proc.testToneEnabled
       \/ blk.modeIndex # ModeIndex(par.mode)

\* ------------------------------------------------------------------- C18
\* the eight smoothed parameters
Smoothed ==
    { "inputGain", "intensity", "echoLevel", "reverbLevel",
      "wowFlutter", "saturation", "tapeNoise", "shimmer" }

\* the length of the ramp: floor (0.020 * sampleRate) samples
RampSteps == (20 * SampleRate) \div 1000

\* one getNextValue call takes smoother s to t: the target stays; on a ramp
\* the countdown goes down by one and the value moves by the ramp's step, or
\* to the target itself with the last step; off a ramp nothing changes
AdvancedOnce(s, t) ==
    /\ t.target = s.target /\ t.step = s.step
    /\ s.countdown = 0 => t = s
    /\ s.countdown > 0 =>
         /\ t.countdown = s.countdown - 1
         /\ t.countdown > 0 => t.current = s.current + s.step
         /\ t.countdown = 0 => t.current = s.target

\* setTargetValue (v) takes smoother s to t: a new target starts a ramp of
\* RampSteps steps from the current value, the same target changes nothing
Retargeted(s, t, v) ==
    /\ v = s.target => t = s
    /\ v # s.target =>
         /\ t.target = v /\ t.current = s.current /\ t.countdown = RampSteps
         /\ t.step = SDiv(v - s.current, RampSteps)

\* C18: each of the eight smoothed parameters is advanced exactly once per
\* pass of the sample loop, whatever the mode; the start of a block gives it
\* the parameter's value as target, starting a linear ramp of 0.020 * sample
\* rate steps from the current value if the target is new; no other step
\* but prepareToPlay touches it; the value never passes the target and is the target when the
\* countdown has run out; the intensity and shimmer a pass uses are the
\* values its getNextValue calls returned.
C18_SmoothedOncePerSample ==
    /\ [](run.prepared =>
            \A k \in Smoothed :
              /\ proc.sm[k].countdown \in 0..RampSteps
              /\ proc.sm[k].countdown = 0 => proc.sm[k].current = proc.sm[k].target
              /\ proc.sm[k].step >= 0 => proc.sm[k].current <= proc.sm[k].target
              /\ proc.sm[k].step <= 0 => proc.sm[k].current >= proc.sm[k].target)
    /\ [][ /\ (blk.active /\ blk'.active /\ blk'.i = blk.i + 1) =>
                /\ \A k \in Smoothed : AdvancedOnce(proc.sm[k], proc'.sm[k])
                /\ obs'.intens = proc'.sm.intensity.current
                /\ obs'.shim = proc'.sm.shimmer.current
           /\ (~blk.active /\ blk'.active) =>
                \A k \in Smoothed : Retargeted(proc.sm[k], proc'.sm[k], par[k])
           /\ (blk'.active = blk.active /\ blk'.i = blk.i
                 /\ run'.prepares = run.prepares) => proc'.sm = proc.sm
         ]_vars

\* the intensity was changed between two blocks and its ramp has just
\* ended: the last pass used the new value, the pass before it a value
\* between the old and the new one
C18_Witness ==
    /\ blk.active /\ obs.valid /\ obs.prev.valid
    /\ run.edits > 0
    /\ proc.sm.intensity.countdown = 0
    /\ obs.intens = par.intensity
    /\ obs.prev.intens # obs.intens
    /\ proc.sm.intensity.step # 0
    /\ obs.intens - obs.prev.intens \in { proc.sm.intensity.step, proc.sm.intensity.step + 1 }

\* ------------------------------------------------------------------- C19
\* what a pass through the sample loop leaves in the left chain and in what
\* both chains read: the left output and the left values observed, the left
\* tape, noise source, EQ, spring, shimmer and feedback, the smoothers, the
\* test tone, the scope ring and the block's locals; and the same of the
\* right chain
LeftView(r) ==
    << r.obs.out[1], r.obs.mix[1], r.obs.echo[1], r.obs.avg[1], r.obs.fbIn[1],
       r.proc.tapeL, r.proc.noiseL, r.proc.bassL, r.proc.trebleL,
       r.proc.springL, r.proc.shimmerL, r.proc.feedbackL, r.proc.shimFeedL,
       r.proc.sm, r.proc.testToneTrigger, r.proc.testTonePhase,
       r.proc.testTonePhase2, r.proc.scopeBuffer, r.blk >>
RightView(r) ==
    << r.obs.out[2], r.obs.mix[2], r.obs.echo[2], r.obs.avg[2], r.obs.fbIn[2],
       r.proc.tapeR, r.proc.noiseR, r.proc.bassR, r.proc.trebleR,
       r.proc.springR, r.proc.shimmerR, r.proc.feedbackR, r.proc.shimFeedR,
       r.proc.sm, r.proc.testToneTrigger, r.proc.testTonePhase,
       r.proc.testTonePhase2 >>

\* a processor that differs from p in the right chain only, which is a copy
\* of the left one with another feedback; and one that differs in the left
\* chain only
OtherRight(p) ==
    [p EXCEPT !.tapeR = p.tapeL, !.noiseR = p.noiseL,
              !.bassR = p.bassL, !.trebleR = p.trebleL,
              !.springR = p.springL, !.shimmerR = p.shimmerL,
              !.feedbackR = One, !.shimFeedR = -One]
OtherLeft(p) ==
    [p EXCEPT !.tapeL = p.tapeR, !.noiseL = p.noiseR,
              !.bassL = p.bassR, !.trebleL = p.trebleR,
              !.springL = p.springR, !.shimmerL = p.shimmerR,
              !.feedbackL = One, !.shimFeedL = -One]

\* C19: with ping-pong off the left and right chains share no mutable state:
\* from every state a run reaches inside a block, the next pass of the sample
\* loop leaves the same left output and the same left tape, EQ, reverb,
\* shimmer and feedback state whatever the right input and the state of the
\* right chain are, so that two runs that differ only in the right input stay
\* equal on the left, pass after pass; and the same with left and right
\* exchanged (but for the scope ring and the meters, fed by the left output).
C19_ChannelsIndependent ==
    (blk.active /\ blk.i < blk.n /\ ~blk.pingpong) =>
      \E a \in {ProcessSample(proc, blk, obs, One, -One)} :
        /\ LeftView(ProcessSample(OtherRight(proc), blk, obs, One, 0)) = LeftView(a)
        /\ RightView(ProcessSample(OtherLeft(proc), blk, obs, 0, -One)) = RightView(a)

\* inside a block with ping-pong off, the two chains hold different signals
\* and different feedback, in a mode with the reverb on
C19_Witness ==
    /\ blk.active /\ blk.i < blk.n /\ ~blk.pingpong
    /\ obs.valid
    /\ obs.echo[1] # 0 /\ obs.echo[1] # obs.echo[2]
    /\ proc.feedbackL # proc.feedbackR
    /\ proc.tapeL.buffer # proc.tapeR.buffer
    /\ blk.mc.reverb /\ proc.springL # proc.springR

\* ------------------------------------------------------------------- C20
\* a delay (Frac units) that readCubic may be given: 1 .. bufferSize - 4
DelayInRange(t, d) == Frac <= d /\ d <= (t.bufferSize - 4) * Frac

\* C20: after prepare and after any sequence of process, reset and setFrozen
\* calls, the write cursor of the TapeDelay is in [0, bufferSize), and the
\* delays the last process call passed to readCubic, for the three heads and
\* for their print-through reads, are in [1, bufferSize - 4].
C20_CursorAndDelaysInRange ==
    /\ tape.writePos \in 0..(tape.bufferSize - 1)
    /\ tape.writePos \in DOMAIN tape.buffer
    /\ tcalls > 0 =>
         \A h \in Heads :
           /\ DelayInRange(tape, tlast.delays[h])
           /\ DelayInRange(tape, PtDelay(tape, tlast.delays[h]))

\* the cursor has gone round the buffer and the longest head's delay, which
\* the repeat rate would put beyond the buffer, is held at bufferSize - 4
C20_Witness ==
    /\ tcalls >= tape.bufferSize
    /\ tape.writePos < NUM_HEADS
    /\ targ.baseMs = 500
    /\ tlast.delays[3] = (tape.bufferSize - 4) * Frac
    /\ tlast.delays[1] < tlast.delays[3]

\* ================================================================= SpecDraw
\* The dropout of a TapeDelay with the code's own numbers.  A run starts at a
\* sample boundary at which the dropout timer has run out, after some number
\* of earlier dropouts, and makes the process call that triggers the next
\* dropout and the first calls of its recovery.  tape holds the four dropout
\* members only, targ the numbers of the dropout.  The left SpringReverb is
\* prepared at the same sample rate.
DrawRates == {44100, 48000, 96000}

\* dropRandState = 1234567891u ^ static_cast<uint32_t> (newSampleRate)
DrawSeed(sr) == Xor32(U32(18838, 723), U32(sr \div 65536, sr % 65536))

\* the generator's states at the first n + 1 triggers: two draws per dropout
RECURSIVE DrawOrbit(_, _)
DrawOrbit(s, n) ==
    IF n = 0 THEN {s} ELSE {s} \cup DrawOrbit(Xorshift32(Xorshift32(s)), n - 1)

InitDraw ==
    /\ \E sr \in DrawRates :
         /\ targ = DropCode(sr)
         /\ \E s \in DrawOrbit(DrawSeed(sr), MaxDraws) :
              tape = [ dropRandState |-> s, dropoutTimer |-> 0,
                       dropoutLen |-> 0, dropoutGain |-> GainOne ]
    /\ tcalls = 0
    /\ tlast = NoCall
    /\ tfrz = NoFreeze
    /\ tpeak = NoPeak
    /\ ui = NoUi
    /\ modeTable = MODE_TABLE
    /\ par = ParamDefaults
    /\ proc = Constructed
    /\ blk = NoBlock
    /\ obs = NoObs
    /\ run = NoRun

\* step 3 of one process call
DrawCall ==
    /\ tcalls < MaxDrawCalls
    /\ tape' = TapeDropout(targ, tape)
    /\ tcalls' = tcalls + 1
    /\ UNCHANGED <<targ, tlast, tfrz, tpeak, procVars, ui>>

\* springL.prepare (sampleRate) on the reverb as constructed
DrawPrepare ==
    /\ proc.springL = SpringConstructed
    /\ proc' = [proc EXCEPT !.springL = SpringPrepare(targ.sr, proc.springL)]
    /\ UNCHANGED <<tape, targ, tcalls, tlast, tfrz, tpeak, modeTable, par, blk,
                   obs, run, ui>>

NextDraw ==
    \/ DrawCall
    \/ DrawPrepare

SpecDraw == InitDraw /\ [][NextDraw]_vars

\* ------------------------------------------------------------------- C21
\* C21: each time a dropout is triggered, the countdown to the next dropout is
\* set to between 15 s and 35 s worth of samples at the prepared sample rate
\* (read while the dropout is in progress, when the countdown stands still).
C21_NextDropoutIn15To35s ==
    tape.dropoutLen > 0 =>
      /\ tape.dropoutTimer >= 15 * targ.sr
      /\ tape.dropoutTimer <= 35 * targ.sr

\* ================================================================= SpecDrop
\* One TapeDelay on the model's time axis, prepared and then processed on
\* silence through its dropouts.  It may be reset once, while a dropout is in
\* progress or within ResetNear calls of a trigger, and prepared again once.
\* targ also counts the dropouts triggered, the calls the last dropout has
\* lasted since its trigger, the resets and the prepare calls.
InitDrop ==
    /\ tape = TapePrepare(TapeConstructed, 750, 0)
    /\ targ = [ baseMs |-> 150, wow |-> One, drops |-> 0, since |-> 0,
                resets |-> 0, prepares |-> 1 ]
    /\ tcalls = 0
    /\ tlast = NoCall
    /\ tfrz = NoFreeze
    /\ tpeak = NoPeak
    /\ ui = NoUi
    /\ modeTable = MODE_TABLE
    /\ par = ParamDefaults
    /\ proc = Constructed
    /\ blk = NoBlock
    /\ obs = NoObs
    /\ run = NoRun

\* tape.process (0, baseDelay, 0, wow, 0), for as long as there are dropouts
\* left in the run or one is in progress
DropCall ==
    /\ targ.drops < MaxDrops \/ tape.dropoutLen > 0
    /\ \E r \in {TapeProcess(tape, 0, BaseDelay(targ.baseMs), 0, targ.wow, 0)} :
         /\ tape' = r.t
         /\ targ' = IF r.t.dropoutLen > tape.dropoutLen
                      THEN [targ EXCEPT !.drops = @ + 1, !.since = 0]
                      ELSE IF tape.dropoutLen > 0
                        THEN [targ EXCEPT !.since = @ + 1]
                      ELSE targ
    /\ UNCHANGED <<tcalls, tlast, tfrz, tpeak, procVars, ui>>

\* tape.reset()
DropReset ==
    /\ targ.resets = 0
    /\ tape.dropoutLen > 0 \/ tape.dropoutTimer <= ResetNear
    /\ tape' = TapeReset(tape)
    /\ targ' = [targ EXCEPT !.resets = @ + 1]
    /\ UNCHANGED <<tcalls, tlast, tfrz, tpeak, procVars, ui>>

\* tape.prepare (sampleRate, 750.f, 0.0f) on a tape in use
DropPrepare ==
    /\ targ.prepares < MaxPrepares
    /\ targ.drops > 0
    /\ tape' = TapePrepare(tape, 750, 0)
    /\ targ' = [targ EXCEPT !.prepares = @ + 1]
    /\ UNCHANGED <<tcalls, tlast, tfrz, tpeak, procVars, ui>>

NextDrop ==
    \/ DropCall
    \/ DropReset
    \/ DropPrepare

\* processing continues: the host keeps calling process
SpecDrop == InitDrop /\ [][NextDrop]_vars /\ WF_vars(DropCall)

\* the longest dropout:  lenBase + the largest value of the random part
RECURSIVE Pow2(_)
Pow2(n) == IF n = 0 THEN 1 ELSE 2 * Pow2(n - 1)
DropLenMax(k) == k.lenBase + Pow2(k.lenBits) - 1
DropTimerMax(k) == Max(2 * k.sr, k.sr * 15 + Pow2(k.timerBits) - 1)

\* ------------------------------------------------------------------- C22
\* the dropout members at a sample boundary
DropoutSound ==
    /\ tape.dropoutLen = 0 => tape.dropoutGain = GainOne
    /\ tape.dropoutGain >= GainOne \div 4
    /\ tape.dropoutGain <= GainOne
    /\ tape.dropoutTimer \in 0..DropTimerMax(DropModel)
    /\ tape.dropoutLen \in 0..DropLenMax(DropModel)

\* a step of the dropout state machine
DropoutStep ==
    /\ tape'.dropoutLen > tape.dropoutLen =>
         tape.dropoutLen = 0 /\ tape.dropoutTimer = 0
    /\ tape.dropoutLen > 0 /\ targ'.prepares = targ.prepares =>
         tape'.dropoutTimer = tape.dropoutTimer
    /\ tape'.dropoutTimer < tape.dropoutTimer /\ targ'.prepares = targ.prepares =>
         tape'.dropoutTimer = tape.dropoutTimer - 1

\* C22: at every sample boundary of TapeDelay, after any sequence of prepare,
\* reset and process calls: with no dropout in progress the playback gain is
\* exactly 1.0; a dropout is triggered only from that idle state with the
\* countdown at 0; process and reset do not move the countdown while a dropout
\* is in progress; the gain is within [0.25, 1.0]; and neither the countdown
\* nor the remaining length goes below 0.
C22_DropoutStateMachine == [](DropoutSound) /\ [][DropoutStep]_vars

\* the second dropout is in progress, after a reset and a second prepare
C22_Witness ==
    /\ targ.drops = MaxDrops
    /\ targ.resets = 1
    /\ targ.prepares = MaxPrepares
    /\ tape.dropoutLen > 0
    /\ tape.dropoutGain < GainOne

\* ------------------------------------------------------------------- C23
\* C23: every triggered dropout ends: while it is in progress the gain only
\* rises and stays at or below 1.0; the calls made since the trigger and the
\* remaining length add up to at most the longest dropout (3370 calls with
\* the code's numbers); a dropout in progress leads to the state with
\* remaining length 0 and gain exactly 1.0; and, while processing continues,
\* each dropout ended is followed by the trigger of a further one.
C23_DropoutEnds ==
    /\ [][tape.dropoutLen > 0 =>
            /\ tape'.dropoutGain >= tape.dropoutGain
            /\ tape'.dropoutGain <= GainOne]_vars
    /\ [](/\ DropLenMax(DropCode(RefRate)) = 3370
          /\ tape.dropoutLen > 0 =>
               targ.since + tape.dropoutLen <= DropLenMax(DropModel))
    /\ (tape.dropoutLen > 0) ~> (tape.dropoutLen = 0 /\ tape.dropoutGain = GainOne)
    /\ \A d \in 0..(MaxDrops - 1) : (targ.drops = d) ~> (targ.drops = d + 1)

\* the last dropout of the run has run its whole length and ended
C23_Witness ==
    /\ targ.drops = MaxDrops
    /\ targ.since >= DropLenBase
    /\ tape.dropoutLen = 0
    /\ tape.dropoutGain = GainOne

\* ------------------------------------------------------------------- C24
\* the greatest common divisor, by Euclid's algorithm
RECURSIVE GCD(_, _)
GCD(a, b) == IF b = 0 THEN a ELSE GCD(b, a % b)

\* C24: after SpringReverb.prepare at 44100 Hz the eight comb buffer lengths
\* are mutually prime: every pair has greatest common divisor 1.
C24_CombLengthsCoprime ==
    targ.sr = 44100 /\ proc.springL # SpringConstructed =>
      \A i, j \in 1..8 :
        i < j => GCD(Len(proc.springL.combBufs[i]), Len(proc.springL.combBufs[j])) = 1

\* ================================================================= SpecShim
\* One ShimmerChorus (the processor's shimmerL), prepared and then driven call
\* by call for longer than a float counts in steps of 2.  A call is given an
\* impulse or silence and an amount of 1.0, or an amount below the bypass
\* threshold; the unit may be reset once in a run.  run counts the calls.
InitShim ==
    /\ proc = Constructed
    /\ run = NoRun
    /\ tape = TapeConstructed
    /\ targ = [baseMs |-> 150, wow |-> 0]
    /\ tcalls = 0
    /\ tlast = NoCall
    /\ tfrz = NoFreeze
    /\ tpeak = NoPeak
    /\ ui = NoUi
    /\ modeTable = MODE_TABLE
    /\ par = ParamDefaults
    /\ blk = NoBlock
    /\ obs = NoObs

\* shimmerL.prepare (sampleRate), which is reset(); later, shimmerL.reset()
ShimReset ==
    /\ run.prepares < MaxPrepares
    /\ proc' = [proc EXCEPT !.shimmerL = ShimmerReset(proc.shimmerL)]
    /\ run' = [run EXCEPT !.prepared = TRUE, !.prepares = @ + 1]
    /\ UNCHANGED <<modeTable, par, blk, obs, tapeVars, ui>>

\* shimmerL.process (x, amount)
ShimCall(x, amount) ==
    /\ run.prepared
    /\ run.samples < MaxShimCalls
    /\ x # 0 => run.hits < MaxHits /\ amount # 0
    /\ proc' = [proc EXCEPT !.shimmerL = ShimmerProcess(proc.shimmerL, x, amount).s]
    /\ run' = [run EXCEPT !.samples = @ + 1,
                          !.hits = IF x # 0 THEN @ + 1 ELSE @]
    /\ UNCHANGED <<modeTable, par, blk, obs, tapeVars, ui>>

NextShim ==
    \/ ShimReset
    \/ \E x \in {0, One}, amount \in {0, One} : ShimCall(x, amount)

SpecShim == InitShim /\ [][NextShim]_vars

\* ------------------------------------------------------------------- C25
\* how far a read cursor is behind the write cursor
Behind(sh, r) == sh.wPos - r

\* C25: after reset and after every process call the two grains are exactly
\* half a grain length apart in their cycles (modulo the grain length), and
\* the windows of the two grains are not both zero.
C25_GrainsHalfApart ==
    run.prepared =>
      /\ (Behind(proc.shimmerL, proc.shimmerL.r1)
            - Behind(proc.shimmerL, proc.shimmerL.r2)) % GRAIN = GRAIN \div 2
      /\ \/ GrainWindow(proc.shimmerL.r1, proc.shimmerL.wPos) > 0
         \/ GrainWindow(proc.shimmerL.r2, proc.shimmerL.wPos) > 0

\* ------------------------------------------------------------------- C26
\* C26: after reset and after every process call with amount at or above the
\* bypass threshold, each read cursor r has  wPos - GRAIN <= r < wPos; each
\* such call advances the write cursor by 1 and each read cursor by 2, or
\* resets the read cursor to wPos - GRAIN when it has reached the write
\* cursor.
C26_CursorsFollow ==
    /\ [](run.prepared =>
            \A r \in {proc.shimmerL.r1, proc.shimmerL.r2} :
              /\ proc.shimmerL.wPos - GRAIN <= r
              /\ r < proc.shimmerL.wPos)
    /\ [][run'.samples # run.samples /\ proc'.shimmerL.wPos # proc.shimmerL.wPos =>
            /\ proc'.shimmerL.wPos = proc.shimmerL.wPos + 1
            /\ proc'.shimmerL.r1 = GrainAdvanceExact(proc.shimmerL.r1, proc'.shimmerL.wPos)
            /\ proc'.shimmerL.r2 = GrainAdvanceExact(proc.shimmerL.r2, proc'.shimmerL.wPos)]_vars

\* ------------------------------------------------------------------- C27
\* the age of slot i when the write cursor is at writePos: 0 for the slot
\* process has just written, size - 1 for the oldest slot
SlotAge(i, writePos, size) == (writePos - i + size) % size

\* the weight readCubic gives y3 at fraction t:  0.5 t^3 - 0.5 t^2  (doubled,
\* in Frac^3)
CubicWeight3(t) == t * t * t - t * t * Frac

\* the four taps p are of consecutive age, oldest first; the newest, i3, may
\* be the slot beyond the cursor only with weight 0
ConsecutiveAge(p, writePos, size) ==
    \E a \in {SlotAge(p.i1, writePos, size)} :
      /\ a >= 1
      /\ a + 1 <= size - 1
      /\ SlotAge(p.im1, writePos, size) = a + 1
      /\ SlotAge(p.i2, writePos, size) = a - 1
      /\ IF a >= 2 THEN SlotAge(p.i3, writePos, size) = a - 2
                   ELSE CubicWeight3(p.t) = 0

\* the runs in which the whole range of delays is tried at every position of
\* the cursor
FullSweep == targ.baseMs = 20 /\ targ.wow = 0 /\ ~tfrz.on

\* C27: for every delay in the clamped range [1, bufferSize - 4] and every
\* position of the write cursor, the four taps of readCubic are samples of
\* consecutive age, and a tap that would cross the write cursor has weight 0:
\* for the six reads of the last process call, and for every delay of the
\* range at the cursor's present position.
C27_TapsConsecutive ==
    /\ tcalls > 0 =>
         \A h \in Heads :
           /\ ConsecutiveAge(tlast.taps[h], tlast.writePos, tape.bufferSize)
           /\ ConsecutiveAge(tlast.ptTaps[h], tlast.writePos, tape.bufferSize)
    /\ FullSweep =>
         \A d \in Frac..((tape.bufferSize - 4) * Frac) :
           ConsecutiveAge(CubicTaps(tape.writePos, tape.bufferSize, d),
                          tape.writePos, tape.bufferSize)

\* the cursor has gone round the buffer, the last call's read of head 3
\* wrapped round the buffer's end, and a read at a delay of exactly one sample
\* would take the slot beyond the cursor with weight 0
C27_Witness ==
    /\ FullSweep
    /\ tcalls > tape.bufferSize
    /\ tlast.taps[3].im1 > tlast.writePos
    /\ CubicTaps(tape.writePos, tape.bufferSize, Frac).i3
         = (tape.writePos + 1) % tape.bufferSize
    /\ CubicTaps(tape.writePos, tape.bufferSize, Frac).t = 0

\* ------------------------------------------------------------------- C28
\* what a SpringReverb and a ShimmerChorus store between calls of process:
\* buffers, cursors, comb filter states and resonator state (setSize and
\* setDamping, which processBlock calls in every block, set the two
\* coefficients roomCoeff and damp, which are left out)
SpringStored(sp) ==
    << sp.preDelayBuf, sp.preDelayPos, sp.combBufs, sp.combPos, sp.combState,
       sp.apBufs, sp.apPos, sp.boingY1, sp.boingY2 >>

ReverbStored(p) ==
    << SpringStored(p.springL), SpringStored(p.springR), p.shimmerL, p.shimmerR >>

\* the mode row of the processBlock call a step belongs to
StepRow == IF blk.active THEN blk.mc ELSE blk'.mc

\* a spring reverb that has gone on from sp by one call of process: every
\* cursor one place further, every buffer as it was except at the old cursor
SpringResumed(sp, next) ==
    /\ next.preDelayPos = RingNext(sp.preDelayPos, Len(sp.preDelayBuf))
    /\ \A k \in DOMAIN sp.preDelayBuf :
         k # sp.preDelayPos + 1 => next.preDelayBuf[k] = sp.preDelayBuf[k]
    /\ \A i \in 1..NUM_COMBS :
         /\ next.combPos[i] = RingNext(sp.combPos[i], Len(sp.combBufs[i]))
         /\ \A k \in DOMAIN sp.combBufs[i] :
              k # sp.combPos[i] + 1 => next.combBufs[i][k] = sp.combBufs[i][k]
    /\ \A i \in 1..NUM_ALLPASS :
         /\ next.apPos[i] = RingNext(sp.apPos[i], Len(sp.apBufs[i]))
         /\ \A k \in DOMAIN sp.apBufs[i] :
              k # sp.apPos[i] + 1 => next.apBufs[i][k] = sp.apBufs[i][k]

\* C28: a pass of the sample loop in a mode without reverb has a reverb term
\* of 0 in the output mix of both channels whatever the reverb level is; no
\* step of a processBlock call in such a mode changes what the two spring
\* reverbs and the two shimmer units store; and the first pass in a reverb
\* mode after a pass without reverb goes on from the stored state.
C28_ReverbStateKept ==
    /\ [](obs.valid /\ ~obs.reverb => obs.revTerm = <<0, 0>>)
    /\ [][(blk.active \/ blk'.active) /\ ~StepRow.reverb
            => ReverbStored(proc') = ReverbStored(proc)]_vars
    /\ [][(run'.samples # run.samples /\ blk.mc.reverb /\ obs.valid /\ ~obs.reverb)
            => /\ SpringResumed(proc.springL, proc'.springL)
               /\ SpringResumed(proc.springR, proc'.springR)
               /\ obs'.shim * 1000 >= One
                    => /\ proc'.shimmerL.wPos = IntInc(proc.shimmerL.wPos)
                       /\ proc'.shimmerR.wPos = IntInc(proc.shimmerR.wPos)]_vars

\* a block in a reverb mode has left signal in the spring and advanced the
\* shimmer, a block in a mode without reverb has been processed with the
\* reverb level above 0, and the first pass of a block in a reverb mode has
\* just gone on from there
C28_Witness ==
    /\ obs.valid /\ obs.reverb
    /\ obs.prev.valid /\ ~obs.prev.reverb
    /\ obs.revLv > 0
    /\ proc.shimmerL.wPos = BlockLen + 1
    /\ \E k \in DOMAIN proc.springL.preDelayBuf : proc.springL.preDelayBuf[k] # 0

\* ------------------------------------------------------------------- C29
\* amounts on both sides of the threshold 0.001: in units of 1/1024, 0 and 1
\* are below it, 2 and the others are above
NoiseAmounts == {0, 1, 2, 154, One}

\* one call of process on the generator n with amount a does what the claim
\* says
NoiseGated(n, a, r) ==
    IF a <= 1
      THEN r.out = 0 /\ r.n = n
      ELSE r.n.state = Xorshift32(n.state) /\ r.n.state # n.state

\* C29: TapeNoise::process with an amount below 0.001 returns exactly 0 and
\* leaves the generator state and both filter states as they were; with an
\* amount of 0.001 or more it advances the generator by exactly one xorshift32
\* step.  For the two generators in every state they reach and amounts on both
\* sides of the threshold, and for the calls the sample loop makes.
C29_NoiseGate ==
    /\ [](\A a \in NoiseAmounts :
            /\ NoiseGated(proc.noiseL, a, NoiseProcess(proc.noiseL, a))
            /\ NoiseGated(proc.noiseR, a, NoiseProcess(proc.noiseR, a)))
    /\ [][run'.samples # run.samples
            => \E a \in {SmNext(proc.sm.tapeNoise).current} :
                 /\ NoiseGated(proc.noiseL, a, [n |-> proc'.noiseL, out |-> 0])
                 /\ NoiseGated(proc.noiseR, a, [n |-> proc'.noiseR, out |-> 0])]_vars

\* passes of the sample loop have been made with the noise amount at 0, the
\* generator still holds its seed, a call with amount 2/1024 would move it
\* and a call with amount 1.0 would return noise
C29_Witness ==
    /\ obs.valid
    /\ run.samples > BlockLen
    /\ proc.sm.tapeNoise.current = 0
    /\ proc.noiseL.state = NoiseConstructed.state
    /\ NoiseProcess(proc.noiseL, 2).n.state # proc.noiseL.state
    /\ NoiseProcess(proc.noiseL, One).out # 0

\* ------------------------------------------------------------------ SpecEq
\* The shelving EQ: the host prepares the processor at one of two sample
\* rates, sets bass and treble, and processBlock calls updateEQ with the
\* parameter values.  targ counts the runs of makeLowShelf / makeHighShelf.
EqRates == {RefRate, 48000}
EqGains == {-12, 0, 12}

InitEq ==
    /\ modeTable = MODE_TABLE
    /\ par = ParamDefaults
    /\ proc = Constructed
    /\ blk = NoBlock
    /\ obs = NoObs
    /\ run = NoRun
    /\ tape = TapeConstructed
    /\ targ = [made |-> 0]
    /\ tcalls = 0
    /\ tlast = NoCall
    /\ tfrz = NoFreeze
    /\ tpeak = NoPeak
    /\ ui = NoUi

\* the bass or treble parameter of apvts is set
EqSetParameter(id, v) ==
    /\ par[id] # v
    /\ par' = [par EXCEPT ![id] = v]
    /\ UNCHANGED <<modeTable, proc, blk, obs, run, tapeVars, ui>>

\* prepareToPlay (sr, samplesPerBlock)
EqPrepare(sr) ==
    /\ run.prepares < MaxPrepares
    /\ proc' = prepareToPlayAt(sr, proc, par)
    /\ run' = [run EXCEPT !.prepared = TRUE, !.prepares = @ + 1]
    /\ targ' = [made |-> targ.made
                  + EqAllocations([proc EXCEPT !.cachedBassDb = 9999,
                                               !.cachedTrebleDb = 9999], 0, 0) \div 2]
    /\ UNCHANGED <<modeTable, par, blk, obs, tape, tcalls, tlast, tfrz, tpeak, ui>>

\* processBlock: updateEQ (bassDb, trebleDb)
EqUpdate ==
    /\ run.prepared
    /\ run.samples < MaxEqCalls
    /\ proc' = updateEQ(proc, par.bass, par.treble)
    /\ run' = [run EXCEPT !.samples = @ + 1]
    /\ targ' = [made |-> targ.made + EqAllocations(proc, par.bass, par.treble) \div 2]
    /\ UNCHANGED <<modeTable, par, blk, obs, tape, tcalls, tlast, tfrz, tpeak, ui>>

NextEq ==
    \/ \E v \in EqGains : EqSetParameter("bass", v)
    \/ \E v \in EqGains : EqSetParameter("treble", v)
    \/ \E sr \in EqRates : EqPrepare(sr)
    \/ EqUpdate

SpecEq == InitEq /\ [][NextEq]_vars

\* ------------------------------------------------------------------- C30
\* the coefficients of the four shelving filters are those of the cached
\* bass and treble values at the current sample rate
EqCurrent(p) ==
    /\ p.bassL.c   = makeLowShelf(p.currentSampleRate, p.cachedBassDb)
    /\ p.bassR.c   = makeLowShelf(p.currentSampleRate, p.cachedBassDb)
    /\ p.trebleL.c = makeHighShelf(p.currentSampleRate, p.cachedTrebleDb)
    /\ p.trebleR.c = makeHighShelf(p.currentSampleRate, p.cachedTrebleDb)

\* C30: from the first prepareToPlay on, the cached bass and treble values
\* are the gains the coefficients of all four shelving filters were computed
\* from at the current sample rate; an updateEQ call leaves the requested pair
\* in the cache, computes coefficients exactly if the requested pair differs
\* from the cached pair and otherwise changes nothing; prepareToPlay always
\* computes them, for 0 dB at the new rate.
C30_EqCache ==
    /\ [](run.prepares > 0 => EqCurrent(proc))
    /\ [][run'.samples # run.samples
            => /\ proc'.cachedBassDb = par.bass
               /\ proc'.cachedTrebleDb = par.treble
               /\ (targ'.made # targ.made)
                    <=> (<<par.bass, par.treble>>
                           # <<proc.cachedBassDb, proc.cachedTrebleDb>>)
               /\ targ'.made = targ.made => proc' = proc]_vars
    /\ [][run'.prepares # run.prepares
            => /\ targ'.made = targ.made + 1
               /\ proc'.cachedBassDb = 0 /\ proc'.cachedTrebleDb = 0
               /\ proc'.bassL.c = makeLowShelf(proc'.currentSampleRate, 0)
               /\ proc'.trebleR.c = makeHighShelf(proc'.currentSampleRate, 0)]_vars

\* the processor has been prepared at 44.1 kHz and then at 48 kHz, one
\* updateEQ call has computed coefficients and another has returned early,
\* and the filters hold the coefficients of bass +12 dB at 48 kHz
C30_Witness ==
    /\ run.prepares = 2
    /\ proc.currentSampleRate = 48000
    /\ targ.made > run.prepares
    /\ targ.made < run.prepares + run.samples
    /\ proc.cachedBassDb = 12
    /\ proc.bassL.c # LowShelf(12)

=============================================================================
